---- MODULE Spec2Model ----
(***************************************************************************)
(* Model of kooooyooooo/boat_get_race_data.                                *)
(*                                                                         *)
(* Part 1: the persistence layer of src/src/db_handler.py, driven by an    *)
(* arbitrary caller inside session_scope.  Python dicts are records of a   *)
(* fixed shape in which a missing key holds AbsentS / AbsentI; Python None *)
(* (and SQL NULL) is NoneS for text and NoneI for numbers.                 *)
(***************************************************************************)
EXTENDS Integers, Sequences, FiniteSets, Bags, TLC

VARIABLES
    db,        \* the committed tables of the SQLite file
    tx,        \* the tables as the open session sees them (committed + flushed + pending)
    pc,        \* position in session_scope: "closed" | "body" | "raising"
    exc,       \* the exception travelling through session_scope ("" when none)
    raised,    \* the exception session_scope re-raised to its caller ("" when none)
    last,      \* the persistence call that has just returned (NoCall otherwise)
    sent,      \* per (race_id, lane), the record of the latest upsert not rolled back
    nCalls,    \* number of persistence calls made so far
    frame      \* the scraping / fan-book helper under evaluation: its arguments and outcome

vars == <<db, tx, pc, exc, raised, last, sent, nCalls, frame>>

---------------------------------------------------------------------------
(* Values *)

NoneS == "None"
AbsentS == "<absent>"
NoneI == -1
AbsentI == -2

\* Python truthiness of a text / numeric dict value (d.get(k) of a missing key is None)
TruthyS(s) == s # AbsentS /\ s # NoneS /\ s # ""
TruthyI(i) == i # AbsentI /\ i # NoneI /\ i # 0

\* dict.get(k): None for a missing key
GetS(s) == IF s = AbsentS THEN NoneS ELSE s
GetI(i) == IF i = AbsentI THEN NoneI ELSE i

\* a or b, on text values already read with .get
OrS(a, b) == IF TruthyS(a) THEN a ELSE b

---------------------------------------------------------------------------
(* Bounds *)

MaxCalls == 3

Lanes == {1, 2}
PlayerIds == {4001, 4002}
Venues == {"01", "02"}

---------------------------------------------------------------------------
(* Tables.  A table is a bag of rows.  Race rows carry their autoincrement *)
(* race_id, NoneI while the object is pending (added, not yet flushed).    *)

EmptyTables == [race |-> EmptyBag, entry |-> EmptyBag, payout |-> EmptyBag,
                player |-> EmptyBag]

Rows(b) == BagToSet(b)
Insert(b, r) == b (+) SetToBag({r})
Delete(b, r) == b (-) SetToBag({r})
Count(b, P(_)) == BagCardinality([r \in {x \in Rows(b) : P(x)} |-> b[r]])

RaceIdentity(r) == <<r.hd, r.jcd, r.rno>>
EntryKey(e) == <<e.race_id, e.lane>>


---------------------------------------------------------------------------
(* The session: autoflush and the unique constraints of models.py *)

Pending(t) == {r \in Rows(t.race) : r.race_id = NoneI}

NextRaceId(t) ==
    LET ids == {r.race_id : r \in Rows(t.race) \ Pending(t)}
    IN  IF ids = {} THEN 1 ELSE (CHOOSE m \in ids : \A i \in ids : i <= m) + 1

\* Session.flush (run by autoflush before every query, and by commit): the
\* pending Race is INSERTed and receives the next rowid.  Every call below
\* queries before it adds, so at most one Race is pending at a time.
autoflush(t) ==
    IF Pending(t) = {} THEN t
    ELSE LET r == CHOOSE x \in Pending(t) : TRUE
         IN  [t EXCEPT !.race =
                 Insert(Delete(@, r), [r EXCEPT !.race_id = NextRaceId(t)])]

\* UniqueConstraint('hd','jcd','rno') and UniqueConstraint('race_id','lane'):
\* the flush fails with IntegrityError when the rows to write break one.
IntegrityViolation(t) ==
    \/ \E r \in Rows(t.race) :
          Count(t.race, LAMBDA x : RaceIdentity(x) = RaceIdentity(r)) > 1
    \/ \E e \in Rows(t.entry) :
          Count(t.entry, LAMBDA x : EntryKey(x) = EntryKey(e)) > 1

\* The result of a call: the session's tables and the exception raised ("" if none)
Ok(t) == [t |-> t, exc |-> ""]
Raise(t, e) == [t |-> t, exc |-> e]

\* A query: autoflush, then the SELECT on the flushed tables
Query(t, body(_)) ==
    IF IntegrityViolation(t) THEN Raise(t, "IntegrityError")
    ELSE body(autoflush(t))

---------------------------------------------------------------------------
(* Race *)

\* mutant: the lookup finds nothing
race_by_identity_none(t, hd, jcd, rno) == {}

\* session.query(Race).filter(hd, jcd, rno): the matching rows
race_by_identity(t, hd, jcd, rno) ==
    {r \in Rows(t.race) : r.hd = hd /\ r.jcd = jcd /\ r.rno = rno}

\* session.query(Race).filter(Race.race_id == race_id): the matching rows
race_by_id(t, race_id) == {r \in Rows(t.race) : r.race_id = race_id}

\* Race(...) as constructed by get_or_create_race.  race_name, distance,
\* deadline, wind_speed, water_temp and wave_height are copied exactly as
\* weather is and are not carried in the model.
new_race(race_data) ==
    [race_id |-> NoneI,
     hd |-> race_data.hd, jcd |-> race_data.jcd, rno |-> race_data.rno,
     weather |-> GetS(race_data.weather),
     wind_dir |-> GetS(race_data.wind_dir),
     season_year |-> race_data.season_year,
     season_term |-> race_data.season_term]

\* mutant: the season fields are not required
get_or_create_race_any_season(t, race_data) ==
    IF ~(TruthyS(race_data.hd) /\ TruthyS(race_data.jcd) /\ TruthyI(race_data.rno))
    THEN Raise(t, "ValueError")
    ELSE Query(t, LAMBDA f :
            IF race_by_identity(f, race_data.hd, race_data.jcd, race_data.rno) # {}
            THEN Ok(f)
            ELSE Ok([f EXCEPT !.race = Insert(@, new_race(race_data))]))

get_or_create_race(t, race_data) ==
    IF ~(TruthyS(race_data.hd) /\ TruthyS(race_data.jcd) /\ TruthyI(race_data.rno))
    THEN Raise(t, "ValueError")
    ELSE IF ~(TruthyI(race_data.season_year) /\ TruthyI(race_data.season_term))
    THEN Raise(t, "ValueError")
    ELSE Query(t, LAMBDA f :
            IF race_by_identity(f, race_data.hd, race_data.jcd, race_data.rno) # {}
            THEN Ok(f)
            ELSE Ok([f EXCEPT !.race = Insert(@, new_race(race_data))]))

update_race_weather(t, race_id, weather_data) ==
    Query(t, LAMBDA f :
        IF race_by_id(f, race_id) = {} THEN Ok(f)
        ELSE LET race == CHOOSE r \in race_by_id(f, race_id) : TRUE
                 w1 == IF weather_data.weather # AbsentS
                       THEN [race EXCEPT !.weather = weather_data.weather]
                       ELSE race
                 w2 == IF weather_data.wind_dir # AbsentS
                          \/ weather_data.wind_direction # AbsentS
                       THEN [w1 EXCEPT !.wind_dir =
                               OrS(GetS(weather_data.wind_dir),
                                   GetS(weather_data.wind_direction))]
                       ELSE w1
             IN  Ok([f EXCEPT !.race = Insert(Delete(@, race), w2)]))

---------------------------------------------------------------------------
(* RaceEntry *)

\* json.dumps(list, ensure_ascii=False) of a list of part names
RECURSIVE json_items(_)
json_items(l) ==
    IF l = <<>> THEN ""
    ELSE IF Len(l) = 1 THEN "\"" \o l[1] \o "\""
    ELSE "\"" \o l[1] \o "\", " \o json_items(Tail(l))

json_dumps(l) == "[" \o json_items(l) \o "]"

\* The parts_changed value of a dict: kind tells a missing key ("absent"),
\* None ("none"), a str ("str", in s) and a list ("list", in l) apart.
parts_column(pv, old) ==
    IF pv.kind = "absent" THEN old
    ELSE IF pv.kind = "none" THEN NoneS
    ELSE IF pv.kind = "str" THEN pv.s
    ELSE json_dumps(pv.l)

\* mutant: the lookup finds nothing
get_race_entry_none(t, race_id, lane) == {}

\* get_race_entry: the rows with this race_id and lane
get_race_entry(t, race_id, lane) ==
    {e \in Rows(t.entry) : e.race_id = race_id /\ e.lane = lane}

\* RaceEntry(race_id, lane, player_id): every other column NULL
new_entry(race_id, lane, player_id) ==
    [race_id |-> race_id, lane |-> lane, player_id |-> player_id,
     class_ |-> NoneS, age |-> NoneI, parts_changed |-> NoneS, rank |-> NoneI]

\* mutant: a field whose key is missing is overwritten with NULL
apply_entry_fields_all(entry, entry_data) ==
    [entry EXCEPT
        !.class_ = OrS(GetS(entry_data.class_), GetS(entry_data.class)),
        !.age = GetI(entry_data.age),
        !.parts_changed = IF entry_data.parts_changed.kind = "absent" THEN NoneS
                          ELSE IF entry_data.parts_changed.kind = "str"
                          THEN entry_data.parts_changed.s ELSE NoneS,
        !.rank = GetI(entry_data.rank)]

\* The "if key in entry_data: entry.key = ..." block.  age stands for the
\* entry-sheet and live columns copied by a plain assignment, rank for the
\* result columns.
apply_entry_fields(entry, entry_data) ==
    [entry EXCEPT
        !.class_ = IF entry_data.class_ # AbsentS \/ entry_data.class # AbsentS
                   THEN OrS(GetS(entry_data.class_), GetS(entry_data.class))
                   ELSE @,
        !.age = IF entry_data.age # AbsentI THEN entry_data.age ELSE @,
        !.parts_changed = parts_column(entry_data.parts_changed, @),
        !.rank = IF entry_data.rank # AbsentI THEN entry_data.rank ELSE @]

upsert_race_entry(t, entry_data) ==
    LET race_id == GetI(entry_data.race_id)
        lane == GetI(entry_data.lane)
        player_id == GetI(entry_data.player_id)
    IN  IF ~(TruthyI(race_id) /\ TruthyI(lane) /\ TruthyI(player_id))
        THEN Raise(t, "ValueError")
        ELSE Query(t, LAMBDA f :
                IF get_race_entry(f, race_id, lane) # {}
                THEN LET entry == CHOOSE e \in get_race_entry(f, race_id, lane) : TRUE
                         e1 == [entry EXCEPT !.player_id = player_id]
                     IN  Ok([f EXCEPT !.entry =
                                Insert(Delete(@, entry), apply_entry_fields(e1, entry_data))])
                ELSE Ok([f EXCEPT !.entry =
                            Insert(@, apply_entry_fields(
                                          new_entry(race_id, lane, player_id), entry_data))]))

---------------------------------------------------------------------------
(* Payout *)

\* mutant: a record without an amount is inserted as well
RECURSIVE new_payouts_unchecked(_, _)
new_payouts_unchecked(race_id, payout_data_list) ==
    IF payout_data_list = <<>> THEN EmptyBag
    ELSE LET payout_data == Head(payout_data_list)
         IN  Insert(new_payouts_unchecked(race_id, Tail(payout_data_list)),
                    [race_id |-> race_id, bet_type |-> GetS(payout_data.bet_type),
                     combination |-> GetS(payout_data.combination),
                     amount |-> GetI(payout_data.amount),
                     popularity |-> GetI(payout_data.popularity)])

\* the loop of create_payouts: one Payout per record that has bet_type,
\* combination and amount; the other records are skipped
RECURSIVE new_payouts(_, _)
new_payouts(race_id, payout_data_list) ==
    IF payout_data_list = <<>> THEN EmptyBag
    ELSE LET payout_data == Head(payout_data_list)
             bet_type == GetS(payout_data.bet_type)
             combination == GetS(payout_data.combination)
             amount == GetI(payout_data.amount)
             rest == new_payouts(race_id, Tail(payout_data_list))
         IN  IF ~(TruthyS(bet_type) /\ TruthyS(combination) /\ TruthyI(amount))
             THEN rest
             ELSE Insert(rest, [race_id |-> race_id, bet_type |-> bet_type,
                                combination |-> combination, amount |-> amount,
                                popularity |-> GetI(payout_data.popularity)])

\* the rows of table b kept when those satisfying P are deleted
Without(b, P(_)) == [r \in {x \in Rows(b) : ~P(x)} |-> b[r]]

\* mutant: the existing rows are not deleted
delete_payouts_none(b, race_id) == b

\* session.query(Payout).filter(race_id).all() followed by session.delete of each
delete_payouts(b, race_id) == Without(b, LAMBDA x : x.race_id = race_id)

\* mutant: the race's entries are deleted along with its payouts
create_payouts_cascade(t, race_id, payout_data_list) ==
    IF payout_data_list = <<>> THEN Ok(t)
    ELSE Query(t, LAMBDA f :
            Ok([f EXCEPT !.payout = delete_payouts(@, race_id)
                                    (+) new_payouts(race_id, payout_data_list),
                         !.entry = Without(@, LAMBDA x : x.race_id = race_id)]))

\* mutant: the stored payouts of the race are deleted before the list is
\* looked at
create_payouts_clears(t, race_id, payout_data_list) ==
    Query(t, LAMBDA f :
        Ok([f EXCEPT !.payout =
               delete_payouts(@, race_id) (+) new_payouts(race_id, payout_data_list)]))

\* the list create_payouts returns: [] for an empty list, else the Payout
\* objects it added
create_payouts_returns(race_id, payout_data_list) ==
    IF payout_data_list = <<>> THEN EmptyBag
    ELSE new_payouts(race_id, payout_data_list)

create_payouts(t, race_id, payout_data_list) ==
    IF payout_data_list = <<>> THEN Ok(t)
    ELSE Query(t, LAMBDA f :
            Ok([f EXCEPT !.payout =
                   delete_payouts(@, race_id) (+) new_payouts(race_id, payout_data_list)]))

---------------------------------------------------------------------------
(* Player *)

\* mutant: the lookup finds nothing
player_by_id_none(t, player_id) == {}

\* session.query(Player).filter(Player.player_id == player_id): the matching rows
player_by_id(t, player_id) == {p \in Rows(t.player) : p.player_id = player_id}

new_player(player_data) ==
    [player_id |-> player_data.player_id,
     name |-> GetS(player_data.name),
     branch |-> GetS(player_data.branch),
     hometown |-> IF player_data.origin # AbsentS THEN player_data.origin
                  ELSE GetS(player_data.hometown),
     birth_date |-> GetS(player_data.birth_date)]

get_or_create_player(t, player_data) ==
    LET player_id == GetI(player_data.player_id)
    IN  IF ~TruthyI(player_id) THEN Raise(t, "ValueError")
        ELSE Query(t, LAMBDA f :
                IF player_by_id(f, player_id) # {}
                THEN LET player == CHOOSE p \in player_by_id(f, player_id) : TRUE
                     IN  IF player.name # GetS(player_data.name)
                            /\ TruthyS(GetS(player_data.name))
                         THEN Ok([f EXCEPT !.player =
                                    Insert(Delete(@, player),
                                           [player EXCEPT !.name = player_data.name])])
                         ELSE Ok(f)
                ELSE Ok([f EXCEPT !.player = Insert(@, new_player(player_data))]))

---------------------------------------------------------------------------
(* The log records of a persistence call that returns: the levels of its  *)
(* logger calls, in order.  t is the session as the call's query sees it. *)

LevelNo == [debug |-> 10, info |-> 20, warning |-> 30, error |-> 40]

get_or_create_race_log(t, race_data) ==
    IF race_by_identity(t, race_data.hd, race_data.jcd, race_data.rno) # {}
    THEN <<"debug">> ELSE <<"info">>

update_race_weather_log(t, race_id, weather_data) ==
    IF race_by_id(t, race_id) = {} THEN <<"warning">> ELSE <<"info">>

\* mutant: a changed player_id is logged like any other update
upsert_race_entry_log_debug(t, entry_data) ==
    IF get_race_entry(t, entry_data.race_id, entry_data.lane) # {}
    THEN <<"debug">> ELSE <<"info">>

upsert_race_entry_log(t, entry_data) ==
    IF get_race_entry(t, entry_data.race_id, entry_data.lane) # {}
    THEN LET entry == CHOOSE e \in get_race_entry(t, entry_data.race_id, entry_data.lane) : TRUE
         IN  <<"debug">>
             \o (IF entry.player_id # entry_data.player_id THEN <<"warning">> ELSE <<>>)
    ELSE <<"info">>

create_payouts_log(t, race_id, payout_data_list) ==
    IF payout_data_list = <<>> THEN <<"warning">>
    ELSE (IF \E x \in Rows(t.payout) : x.race_id = race_id THEN <<"info">> ELSE <<>>)
         \o [i \in 1..(Len(payout_data_list)
                         - BagCardinality(new_payouts(race_id, payout_data_list)))
               |-> "warning"]
         \o <<"info">>

get_or_create_player_log(t, player_data) ==
    IF player_by_id(t, player_data.player_id) # {}
    THEN LET player == CHOOSE p \in player_by_id(t, player_data.player_id) : TRUE
         IN  <<"debug">>
             \o (IF player.name # GetS(player_data.name) /\ TruthyS(GetS(player_data.name))
                 THEN <<"info">> ELSE <<>>)
    ELSE <<"info">>

---------------------------------------------------------------------------
(* The arguments the caller may pass *)

RaceIdArgs == 1..Cardinality(Venues)

NoRaceData == [hd |-> AbsentS, jcd |-> AbsentS, rno |-> AbsentI, weather |-> AbsentS,
               wind_dir |-> AbsentS, season_year |-> AbsentI, season_term |-> AbsentI]

ValidRaceData ==
    [hd : {"2024-04-27"}, jcd : Venues, rno : {1}, weather : {AbsentS, "fine"},
     wind_dir : {AbsentS}, season_year : {2024}, season_term : {1}]

FullRaceData == CHOOSE rd \in ValidRaceData : rd.jcd = "01" /\ rd.weather = "fine"

InvalidRaceData ==
    {[FullRaceData EXCEPT !.rno = AbsentI], [FullRaceData EXCEPT !.season_term = NoneI]}

RaceData == ValidRaceData \cup InvalidRaceData

NoWeatherData == [weather |-> AbsentS, wind_dir |-> AbsentS, wind_direction |-> AbsentS]

WeatherData ==
    {[NoWeatherData EXCEPT !.weather = "rain"],
     [NoWeatherData EXCEPT !.wind_dir = "5"],
     [NoWeatherData EXCEPT !.wind_dir = NoneS, !.wind_direction = "9"]}

NoParts == [kind |-> "absent", s |-> "", l |-> <<>>]
PartsValues ==
    {[kind |-> "none", s |-> "", l |-> <<>>],
     [kind |-> "str", s |-> "ring", l |-> <<>>],
     [kind |-> "list", s |-> "", l |-> <<"ring">>]}

NoEntryData == [race_id |-> AbsentI, lane |-> AbsentI, player_id |-> AbsentI,
                class_ |-> AbsentS, class |-> AbsentS, age |-> AbsentI,
                parts_changed |-> NoParts, rank |-> AbsentI]

\* the optional part of an entry record: the entry-sheet wave, the two
\* spellings of the class key, the live wave, the result wave, nothing at all
EntryFields ==
    {[NoEntryData EXCEPT !.class = "A1", !.age = 30],
     [NoEntryData EXCEPT !.class = "B1", !.age = 30],
     [NoEntryData EXCEPT !.class = "A1", !.age = NoneI],
     [NoEntryData EXCEPT !.class_ = "A1", !.class = "B1"],
     [NoEntryData EXCEPT !.class_ = "", !.class = "B1"],
     [NoEntryData EXCEPT !.class_ = ""]}
    \cup {[NoEntryData EXCEPT !.parts_changed = pv] : pv \in PartsValues}
    \cup {[NoEntryData EXCEPT !.rank = r] : r \in {1, NoneI}}
    \cup {NoEntryData}

\* the waves as the scrapers send them, for the whole pipeline
WaveFields ==
    {[NoEntryData EXCEPT !.class = "A1", !.age = 30],
     [NoEntryData EXCEPT !.parts_changed = [kind |-> "list", s |-> "", l |-> <<"ring">>]],
     [NoEntryData EXCEPT !.rank = 1]}

WithKey(F, I, L, P) ==
    {[f EXCEPT !.race_id = i, !.lane = l, !.player_id = p] :
        f \in F, i \in I, l \in L, p \in P}

FullEntryData ==
    [NoEntryData EXCEPT !.race_id = 1, !.lane = 1, !.player_id = 4001, !.class = "A1"]

InvalidEntryData ==
    {[FullEntryData EXCEPT !.race_id = NoneI], [FullEntryData EXCEPT !.lane = 0],
     [FullEntryData EXCEPT !.player_id = AbsentI]}

\* entry records for one race, every field combination
EntryData ==
    WithKey(EntryFields, {1}, Lanes, {4001})
    \cup WithKey({NoEntryData, [NoEntryData EXCEPT !.class = "B1", !.age = 30]},
                {1}, Lanes, {4002})
    \cup InvalidEntryData

\* entry records for every race, the scrapers' waves
WaveData ==
    WithKey(WaveFields, RaceIdArgs, Lanes, {4001})
    \cup {[FullEntryData EXCEPT !.player_id = 4002], [FullEntryData EXCEPT !.lane = AbsentI]}

EntryKeys == RaceIdArgs \X Lanes

Trifecta == [bet_type |-> "trifecta", combination |-> "1-2-3", amount |-> 5300,
             popularity |-> 22]
Win == [bet_type |-> "win", combination |-> "1", amount |-> 150, popularity |-> AbsentI]
NoAmount == [Trifecta EXCEPT !.amount = NoneI]

PayoutLists ==
    {<<>>, <<Trifecta>>, <<Trifecta, Win>>, <<Win, Win>>, <<NoAmount, Win>>}

NoPlayerData == [player_id |-> AbsentI, name |-> AbsentS, branch |-> AbsentS,
                 origin |-> AbsentS, hometown |-> AbsentS, birth_date |-> AbsentS]

Sato == [player_id |-> 4001, name |-> "Sato", branch |-> "Tokyo", origin |-> AbsentS,
         hometown |-> "Saitama", birth_date |-> "1990-01-01"]
PlayerData ==
    {Sato,
     [Sato EXCEPT !.name = "Suzuki", !.branch = "Osaka", !.origin = "Gunma",
                  !.birth_date = AbsentS],
     [Sato EXCEPT !.name = "", !.branch = "Osaka"],
     [Sato EXCEPT !.name = AbsentS, !.hometown = AbsentS],
     [Sato EXCEPT !.player_id = 4002],
     [Sato EXCEPT !.player_id = 4002, !.name = "Tanaka", !.origin = NoneS],
     [Sato EXCEPT !.player_id = AbsentI],
     [Sato EXCEPT !.player_id = 0]}

---------------------------------------------------------------------------
(* What the model remembers about the calls made *)

NoCall == [op |-> "none", rd |-> NoRaceData, ed |-> NoEntryData, wd |-> NoWeatherData,
           pd |-> NoPlayerData, rid |-> NoneI, pl |-> <<>>,
           twice |-> FALSE, existed |-> FALSE, exc |-> "", log |-> <<>>]

NothingSent == [k \in EntryKeys |-> NoEntryData]

NoFrame == [fn |-> "none"]

---------------------------------------------------------------------------
(* session_scope *)

\* session.commit(): flush what is pending, make the transaction durable
session_commit(d, t) == autoflush(t)

\* mutant: the transaction's writes are kept
session_rollback_keeps(d, t) == autoflush(t)

\* session.rollback(): the transaction's writes are discarded
session_rollback(d, t) == d

\* session = session_factory(); yield session
session_scope_enter ==
    /\ pc = "closed"
    /\ pc' = "body"
    /\ tx' = db
    /\ exc' = ""
    /\ raised' = ""
    /\ last' = NoCall
    /\ UNCHANGED <<db, sent, nCalls, frame>>

\* the body returned: session.commit(), then session.close()
session_scope_commit ==
    /\ pc = "body"
    /\ pc' = "closed"
    /\ exc' = ""
    /\ last' = NoCall
    /\ IF IntegrityViolation(tx)
       THEN /\ db' = session_rollback(db, tx)
            /\ raised' = "IntegrityError"
            /\ sent' = NothingSent
       ELSE /\ db' = session_commit(db, tx)
            /\ raised' = ""
            /\ sent' = sent
    /\ tx' = db'
    /\ UNCHANGED <<nCalls, frame>>

\* session.commit() itself raised (the connection failed): except, rollback,
\* raise, close
session_scope_commit_fails ==
    /\ pc = "body"
    /\ pc' = "closed"
    /\ exc' = ""
    /\ last' = NoCall
    /\ db' = session_rollback(db, tx)
    /\ raised' = "OperationalError"
    /\ tx' = db'
    /\ sent' = NothingSent
    /\ UNCHANGED <<nCalls, frame>>

\* the body raised: except, logger.error, session.rollback(), raise, close
session_scope_except ==
    /\ pc = "raising"
    /\ pc' = "closed"
    /\ db' = session_rollback(db, tx)
    /\ tx' = db'
    /\ raised' = exc
    /\ exc' = ""
    /\ last' = NoCall
    /\ sent' = NothingSent
    /\ UNCHANGED <<nCalls, frame>>

\* code of the body other than a persistence call raises
body_raises ==
    /\ pc = "body"
    /\ pc' = "raising"
    /\ exc' = "Exception"
    /\ last' = NoCall
    /\ UNCHANGED <<db, tx, raised, sent, nCalls, frame>>

---------------------------------------------------------------------------
(* The persistence calls made by the body *)

Call(res, call, sent2) ==
    /\ pc = "body"
    /\ nCalls < MaxCalls
    /\ nCalls' = nCalls + 1
    /\ tx' = res.t
    /\ exc' = res.exc
    /\ pc' = IF res.exc = "" THEN "body" ELSE "raising"
    /\ last' = [call EXCEPT !.exc = res.exc, !.log = IF res.exc = "" THEN @ ELSE <<>>]
    /\ sent' = IF res.exc = "" THEN sent2 ELSE sent
    /\ UNCHANGED <<db, raised, frame>>

call_get_or_create_race(RaceArgs) ==
    \E rd \in RaceArgs :
        Call(get_or_create_race(tx, rd),
             [NoCall EXCEPT !.op = "get_or_create_race", !.rd = rd,
                 !.existed = \E r \in Rows(tx.race) : RaceIdentity(r) = RaceIdentity(rd),
                 !.log = get_or_create_race_log(tx, rd)],
             sent)

call_update_race_weather(WeatherArgs) ==
    \E rid \in RaceIdArgs, wd \in WeatherArgs :
        Call(update_race_weather(tx, rid, wd),
             [NoCall EXCEPT !.op = "update_race_weather", !.rid = rid, !.wd = wd,
                 !.existed = \E r \in Rows(autoflush(tx).race) : r.race_id = rid,
                 !.log = update_race_weather_log(autoflush(tx), rid, wd)],
             sent)

call_upsert_race_entry(EntryArgs) ==
    \E ed \in EntryArgs :
        Call(upsert_race_entry(tx, ed),
             [NoCall EXCEPT !.op = "upsert_race_entry", !.ed = ed,
                 !.twice = EntryKey(ed) \in EntryKeys /\ sent[EntryKey(ed)] = ed,
                 !.existed = \E e \in Rows(tx.entry) : EntryKey(e) = EntryKey(ed),
                 !.log = upsert_race_entry_log(tx, ed)],
             IF EntryKey(ed) \in EntryKeys
             THEN [sent EXCEPT ![EntryKey(ed)] = ed] ELSE sent)

call_create_payouts(PayoutArgs) ==
    \E rid \in RaceIdArgs, pl \in PayoutArgs :
        Call(create_payouts(tx, rid, pl),
             [NoCall EXCEPT !.op = "create_payouts", !.rid = rid, !.pl = pl,
                 !.existed = \E x \in Rows(tx.payout) : x.race_id = rid,
                 !.log = create_payouts_log(tx, rid, pl)],
             sent)

call_get_or_create_player(PlayerArgs) ==
    \E pd \in PlayerArgs :
        Call(get_or_create_player(tx, pd),
             [NoCall EXCEPT !.op = "get_or_create_player", !.pd = pd,
                 !.existed = \E x \in Rows(tx.player) : x.player_id = pd.player_id,
                 !.log = get_or_create_player_log(tx, pd)],
             sent)

---------------------------------------------------------------------------
(* Part 2: the helpers of src/src/scraping/scrape_util.py.  A text is a    *)
(* sequence of one-character strings; None is NoneT.  A Python value is a  *)
(* tagged record, an outcome is a value or the exception that escapes.     *)

MaxLen == 3

NoneT == <<"<None>">>
Digit == {"0", "1", "2", "3", "4", "5", "6", "7", "8", "9"}
DigitVal == [c \in Digit |->
    CASE c = "0" -> 0 [] c = "1" -> 1 [] c = "2" -> 2 [] c = "3" -> 3 [] c = "4" -> 4
      [] c = "5" -> 5 [] c = "6" -> 6 [] c = "7" -> 7 [] c = "8" -> 8 [] c = "9" -> 9]

PyNone == [t |-> "None"]
PyInt(n) == [t |-> "int", v |-> n]
PyFloat(m, e) == [t |-> "float", m |-> m, e |-> e]
Returns(v) == [exc |-> "", ret |-> v]
Raises(e) == [exc |-> e, ret |-> PyNone]

\* the decimal value of a run of digits
RECURSIVE DecimalValue(_)
DecimalValue(s) ==
    IF s = <<>> THEN 0
    ELSE 10 * DecimalValue(SubSeq(s, 1, Len(s) - 1)) + DigitVal[s[Len(s)]]

\* int(x) for x None or a text over the alphabet of the model
int(x) ==
    IF x = NoneT THEN Raises("TypeError")
    ELSE IF x = <<>> \/ \E i \in 1..Len(x) : x[i] \notin Digit THEN Raises("ValueError")
    ELSE Returns(PyInt(DecimalValue(x)))

\* x.replace(c, '')
str_replace(x, c) == SelectSeq(x, LAMBDA ch : ch # c)

\* the value m / 10^e without trailing zeros in the fraction
RECURSIVE float_of(_, _)
float_of(m, e) ==
    IF e > 0 /\ m % 10 = 0 THEN float_of(m \div 10, e - 1) ELSE PyFloat(m, e)

\* float(x) for x None or a text over the alphabet of the model
float(x) ==
    IF x = NoneT THEN Raises("TypeError")
    ELSE LET dots == {i \in 1..Len(x) : x[i] = "."}
             digits == str_replace(x, ".")
         IN  IF \/ digits = <<>>
                \/ Cardinality(dots) > 1
                \/ \E i \in 1..Len(x) : x[i] \notin Digit \cup {"."}
             THEN Raises("ValueError")
             ELSE Returns(float_of(DecimalValue(digits),
                                   IF dots = {} THEN 0
                                   ELSE Len(x) - (CHOOSE i \in dots : TRUE)))

\* lambda x: int(x.replace(',', '')) of extract_payouts
int_without_commas(x) ==
    IF x = NoneT THEN Raises("AttributeError") ELSE int(str_replace(x, ","))

type_converter(conv, x) ==
    CASE conv = "int" -> int(x)
      [] conv = "float" -> float(x)
      [] conv = "lambda" -> int_without_commas(x)

\* The patterns: one capture group (cls+), optional when opt, followed by the
\* literal text suffix.
Pattern(cls, opt, suffix) == [cls |-> cls, opt |-> opt, suffix |-> suffix]
Number == Pattern(Digit, FALSE, <<>>)                    \* (\d+)
NumberCommas == Pattern(Digit \cup {","}, FALSE, <<>>)    \* ([,\d]+)
NumberDots == Pattern(Digit \cup {"."}, FALSE, <<>>)      \* ([\d\.]+)
NumberM == Pattern(Digit, FALSE, <<"m">>)                 \* (\d+)m
OptNumberM == Pattern(Digit, TRUE, <<"m">>)               \* (\d+)?m

NoMatch == [found |-> FALSE]
Match(whole, g1) == [found |-> TRUE, whole |-> whole, g1 |-> g1]

\* text continues with lit at position i
LitAt(text, i, lit) ==
    /\ i + Len(lit) - 1 <= Len(text)
    /\ \A k \in 1..Len(lit) : text[i + k - 1] = lit[k]

\* the match of pattern that starts at position i of text: the longest run of
\* the class that the suffix can follow, else the group left out when optional
MatchAt(pattern, text, i) ==
    LET runs == {k \in 1..(Len(text) - i + 1) :
                    /\ \A j \in i..(i + k - 1) : text[j] \in pattern.cls
                    /\ LitAt(text, i + k, pattern.suffix)}
    IN  IF runs # {}
        THEN LET k == CHOOSE k \in runs : \A k2 \in runs : k2 <= k
             IN  Match(SubSeq(text, i, i + k - 1 + Len(pattern.suffix)),
                       SubSeq(text, i, i + k - 1))
        ELSE IF pattern.opt /\ LitAt(text, i, pattern.suffix)
        THEN Match(pattern.suffix, NoneT)
        ELSE NoMatch

\* re.search(pattern, text): the leftmost match
re_search(pattern, text) ==
    LET at == {i \in 1..(Len(text) + 1) : MatchAt(pattern, text, i).found}
    IN  IF at = {} THEN NoMatch
        ELSE MatchAt(pattern, text, CHOOSE i \in at : \A i2 \in at : i <= i2)

\* match.group(group): IndexError for a group the pattern does not have, None
\* for a group that took no part in the match
match_group(match, group) ==
    CASE group = 0 -> Returns(match.whole)
      [] group = 1 -> Returns(match.g1)
      [] OTHER -> Raises("IndexError")

\* _extract_number(text, pattern, group, type_converter, default)
extract_number(text, pattern, group, conv, default) ==
    IF text = NoneT \/ text = <<>> THEN Returns(default)
    ELSE LET match == re_search(pattern, text)
         IN  IF ~match.found THEN Returns(default)
             ELSE LET g == match_group(match, group)
                      c == IF g.exc # "" THEN g ELSE type_converter(conv, g.ret)
                  IN  IF c.exc \in {"ValueError", "IndexError"}
                      THEN Returns(default) ELSE c

Whitespace == {" ", "\n"}

\* mutant: the text is not trimmed
strip_none(text) == text

\* text.strip()
RECURSIVE strip(_)
strip(text) ==
    IF text = <<>> THEN text
    ELSE IF Head(text) \in Whitespace THEN strip(Tail(text))
    ELSE IF text[Len(text)] \in Whitespace THEN strip(SubSeq(text, 1, Len(text) - 1))
    ELSE text

\* _extract_text(element, default): the stripped text, default for a missing
\* element, an empty text or "---"
extract_text(element, default) ==
    IF element = NoneT THEN default
    ELSE LET text == strip(element)
         IN  IF text # <<>> /\ text # <<"-", "-", "-">> THEN text ELSE default

---------------------------------------------------------------------------
(* extract_payouts of src/src/scraping/result_scraper.py.  The payout      *)
(* table is a sequence of tbody; a tbody has its first cell (bet type,     *)
(* with or without rowspan) and rows; a row has the spans of its           *)
(* combination cell, and the texts of its payout span and popularity cell  *)
(* (NoneT when the element is missing).                                    *)

Span(text, type) == [text |-> text, type |-> type]
Row(boats, payout, popularity) ==
    [boats |-> boats, payout |-> payout, popularity |-> popularity]
\* a tbody: the first cell of its first row (its rowspan attribute, its
\* text, whether it holds a numberSet1_number span) and its rows
Tbody(rowspan, bet_type, rows) ==
    [rowspan |-> rowspan, bet_type |-> bet_type, rows |-> rows, number |-> FALSE]
\* a tbody whose first row starts with the combination cell
NumberFirst(span, rows) ==
    [rowspan |-> FALSE, bet_type |-> span.text, rows |-> rows, number |-> TRUE]
Soup(payout_table, tbody_elements) ==
    [payout_table |-> payout_table, tbody_elements |-> tbody_elements]

\* the boats of a combination cell: the number of each span, else the N of
\* its is-typeN class (0: the span has none)
RECURSIVE row_boats(_)
row_boats(spans) ==
    IF spans = <<>> THEN <<>>
    ELSE LET span == Head(spans)
             boat_num == extract_number(extract_text(span.text, NoneT), Number, 1, "int", PyNone).ret
         IN  (IF boat_num # PyNone THEN <<boat_num.v>>
              ELSE IF span.type \in 1..6 THEN <<span.type>> ELSE <<>>)
             \o row_boats(Tail(spans))

\* the loop over the rows of one tbody: a row without boats is skipped, a
\* row whose payout is None is dropped with a warning (a popularity of None
\* stands for the key left out of payout_info)
RECURSIVE tbody_rows(_)
tbody_rows(rows) ==
    IF rows = <<>> THEN <<>>
    ELSE LET row == Head(rows)
             boats == row_boats(row.boats)
             payout == extract_number(extract_text(row.payout, NoneT), NumberCommas, 1,
                                      "lambda", PyNone)
             popularity == extract_number(extract_text(row.popularity, NoneT), Number, 1,
                                          "int", PyNone)
             payout_info == [boats |-> boats, payout |-> payout.ret,
                             popularity |-> popularity.ret]
         IN  (IF boats = <<>> \/ payout_info.payout = PyNone THEN <<>> ELSE <<payout_info>>)
             \o tbody_rows(Tail(rows))

\* the loop over the tbody elements, carrying current_bet_type and payouts_data
RECURSIVE extract_payouts_loop(_, _, _)
extract_payouts_loop(tbody_elements, current_bet_type, payouts_data) ==
    IF tbody_elements = <<>> THEN payouts_data
    ELSE LET tbody == Head(tbody_elements)
             text == extract_text(tbody.bet_type, NoneT)
             bet_type == IF tbody.bet_type # NoneT /\ tbody.rowspan THEN text
                         ELSE IF tbody.bet_type # NoneT /\ text # NoneT THEN text
                         ELSE current_bet_type
             has_number == \/ tbody.number
                           \/ \E i \in 1..Len(tbody.rows) : tbody.rows[i].boats # <<>>
             old == IF bet_type \in DOMAIN payouts_data THEN payouts_data[bet_type]
                    ELSE <<>>
         IN  IF bet_type = NoneT \/ ~has_number
             THEN extract_payouts_loop(Tail(tbody_elements), bet_type, payouts_data)
             ELSE extract_payouts_loop(Tail(tbody_elements), bet_type,
                      (bet_type :> (old \o tbody_rows(tbody.rows))) @@ payouts_data)

\* extract_payouts(soup): nothing when the page has no payout table
extract_payouts(soup) ==
    IF ~soup.payout_table THEN <<>>
    ELSE extract_payouts_loop(soup.tbody_elements, NoneT, <<>>)

---------------------------------------------------------------------------
(* extract_race_entries_info of src/src/scraping/entry_scraper.py.  The    *)
(* document is the sequence of its tbody blocks; a block has the N of its  *)
(* is-boatColorN cell (0: no such cell or class), its player cell          *)
(* (td:nth-child(3)) or not, the texts of the registration number, class   *)
(* and name elements (NoneT: element missing) and the first line of its    *)
(* motor cell (NoneT: no cell, empty: no line).  The F/L/ST, win-rate and  *)
(* boat cells are read like the motor cell and are left out.               *)

AbsentT == <<"<absent>">>
WideSpace == "u3000"

Block(boat_color, player_info_td, reg_num, class, name, motor) ==
    [boat_color |-> boat_color, player_info_td |-> player_info_td, reg_num |-> reg_num,
     class |-> class, name |-> name, motor |-> motor]

NoEntry == [lane |-> AbsentI, player_id |-> AbsentI, class |-> AbsentT, name |-> AbsentT,
            motor_no |-> AbsentI]

\* re.search of a pattern that starts with ^: the match at the start of text
re_search_start(pattern, text) == MatchAt(pattern, text, 1)

\* _extract_number(text, r"^(\d+)")
extract_number_start(text) ==
    IF text = NoneT \/ text = <<>> THEN NoneI
    ELSE LET match == re_search_start(Number, text)
         IN  IF ~match.found THEN NoneI ELSE int(match.g1).ret.v

\* the entry of one tbody, or NoEntry when the block is skipped
block_entry(tbody) ==
    LET lane == IF tbody.boat_color \in 1..6 THEN tbody.boat_color ELSE AbsentI
        player_id == extract_number_start(extract_text(tbody.reg_num, NoneT))
        extracted_name == extract_text(tbody.name, NoneT)
        motor_no == IF tbody.motor = NoneT \/ strip(tbody.motor) = <<>> THEN AbsentI
                    ELSE LET n == extract_number(strip(tbody.motor), Number, 1, "int", PyNone).ret
                         IN  IF n = PyNone THEN NoneI ELSE n.v
    IN  IF lane = AbsentI THEN NoEntry
        ELSE IF ~tbody.player_info_td
        THEN [NoEntry EXCEPT !.lane = lane, !.motor_no = motor_no]
        ELSE IF ~TruthyI(player_id) THEN NoEntry
        ELSE [lane |-> lane, player_id |-> player_id,
              class |-> extract_text(tbody.class, NoneT),
              name |-> IF extracted_name # NoneT THEN str_replace(extracted_name, WideSpace)
                       ELSE NoneT,
              motor_no |-> motor_no]

\* extract_race_entries_info(html): the entries of the blocks not skipped
RECURSIVE extract_race_entries_info(_)
extract_race_entries_info(tbody_elements) ==
    IF tbody_elements = <<>> THEN <<>>
    ELSE LET entry == block_entry(Head(tbody_elements))
         IN  (IF entry = NoEntry THEN <<>> ELSE <<entry>>)
             \o extract_race_entries_info(Tail(tbody_elements))

---------------------------------------------------------------------------
(* extract_start_exhibition_info of src/src/scraping/live_info_scraper.py. *)
(* An element has the set of N of the is-typeN classes of its number span  *)
(* ({}: no span or no such class), the text of its time span (NoneT: no    *)
(* span) and whether that span has class is-fColor1.                       *)

Boat(types, st, f_color) == [types |-> types, st |-> st, f_color |-> f_color]

\* for i in range(1, 7): if f"is-type{i}" in classes: ... break
first_type(types) ==
    LET found == types \cap (1..6)
    IN  IF found = {} THEN AbsentI ELSE CHOOSE i \in found : \A j \in found : i <= j

\* the loop over the elements: an element without a course is skipped
RECURSIVE exhibition_loop(_)
exhibition_loop(start_display_elems) ==
    IF start_display_elems = <<>> THEN <<>>
    ELSE LET elem == Head(start_display_elems)
             course == first_type(elem.types)
             st_text == extract_text(elem.st, NoneT)
             exhibition_data ==
                 [course |-> course,
                  st |-> extract_number(st_text, NumberDots, 1, "float", PyNone).ret,
                  is_flying |-> IF elem.st # NoneT THEN elem.f_color ELSE FALSE]
         IN  (IF course = AbsentI THEN <<>> ELSE <<exhibition_data>>)
             \o exhibition_loop(Tail(start_display_elems))

\* mutant: the entries are returned in document order
sort_none(start_exhibition) == start_exhibition

\* start_exhibition.sort(key=lambda x: x.get("course", 99)): a stable sort
RECURSIVE sort_by_course(_)
sort_by_course(start_exhibition) ==
    IF start_exhibition = <<>> THEN <<>>
    ELSE LET n == Len(start_exhibition)
             x == start_exhibition[n]
             sorted == sort_by_course(SubSeq(start_exhibition, 1, n - 1))
         IN  SelectSeq(sorted, LAMBDA y : y.course <= x.course) \o <<x>>
             \o SelectSeq(sorted, LAMBDA y : y.course > x.course)

extract_start_exhibition_info(soup) == sort_by_course(exhibition_loop(soup))

---------------------------------------------------------------------------
(* extract_weather_info of src/src/scraping/live_info_scraper.py.  The     *)
(* weather section has the texts of its elements (NoneT: element missing); *)
(* its wind direction element has the set of N of its is-windN classes and *)
(* an image: none, one without src, or one with the src text.              *)

NoImg == <<"<no img>">>
NoSrc == <<"<no src>">>
DegC == "degC"
WindDir(present, classes, img) == [present |-> present, classes |-> classes, img |-> img]
NumberDotsDegC == Pattern(Digit \cup {"."}, FALSE, <<DegC>>)     \* ([\d\.]+)℃
NumberCm == Pattern(Digit, FALSE, <<"c", "m">>)                  \* (\d+)cm
ImgCorner == <<"i", "m", "g", "_", "c", "o", "r", "n", "e", "r", "1", "_">>

\* the match of r'img_corner1_(\d+).png' that starts at position i: the
\* longest run of digits that any one character and "png" can follow
corner_match_at(img_src, i) ==
    LET from == i + Len(ImgCorner)
        runs == {k \in 1..Len(img_src) :
                    /\ LitAt(img_src, i, ImgCorner)
                    /\ from + k <= Len(img_src)
                    /\ \A j \in from..(from + k - 1) : img_src[j] \in Digit
                    /\ LitAt(img_src, from + k + 1, <<"p", "n", "g">>)}
    IN  IF runs = {} THEN NoMatch
        ELSE LET k == CHOOSE k \in runs : \A k2 \in runs : k2 <= k
             IN  Match(SubSeq(img_src, i, from + k + 3), SubSeq(img_src, from, from + k - 1))

\* re.search(r'img_corner1_(\d+).png', img_src)
corner_search(img_src) ==
    LET at == {i \in 1..Len(img_src) : corner_match_at(img_src, i).found}
    IN  IF at = {} THEN NoMatch
        ELSE corner_match_at(img_src, CHOOSE i \in at : \A i2 \in at : i <= i2)

\* the wind direction block: PyInt(AbsentI) when the key is not set
wind_direction(wind_dir_elem) ==
    IF ~wind_dir_elem.present THEN Returns(PyInt(AbsentI))
    ELSE LET found == wind_dir_elem.classes \cap (1..16)
         IN  IF found # {} THEN Returns(PyInt(CHOOSE i \in found : \A j \in found : i <= j))
             ELSE IF wind_dir_elem.img = NoImg THEN Returns(PyInt(AbsentI))
             ELSE IF wind_dir_elem.img = NoSrc THEN Raises("KeyError")
             ELSE IF wind_dir_elem.img = <<>> THEN Returns(PyInt(AbsentI))
             ELSE LET match == corner_search(wind_dir_elem.img)
                  IN  IF match.found THEN int(match.g1) ELSE Returns(PyInt(AbsentI))

NoWeatherInfo ==
    [weather_update_time |-> AbsentT, temperature |-> PyInt(AbsentI), weather |-> AbsentT,
     wind_speed |-> PyInt(AbsentI), wind_direction |-> AbsentI,
     water_temperature |-> PyInt(AbsentI), wave_height |-> PyInt(AbsentI)]

\* extract_weather_info(soup)
extract_weather_info(soup) ==
    IF ~soup.weather_section THEN Returns(NoWeatherInfo)
    ELSE LET wd == wind_direction(soup.wind_dir_elem)
         IN  IF wd.exc # "" THEN wd
             ELSE Returns(
                [weather_update_time |-> extract_text(soup.update_time, NoneT),
                 temperature |-> extract_number(extract_text(soup.temp, NoneT),
                                                NumberDotsDegC, 1, "float", PyNone).ret,
                 weather |-> extract_text(soup.weather, NoneT),
                 wind_speed |-> extract_number(extract_text(soup.wind_speed, NoneT),
                                               NumberM, 1, "int", PyNone).ret,
                 wind_direction |-> wd.ret.v,
                 water_temperature |-> extract_number(extract_text(soup.water_temp, NoneT),
                                                      NumberDotsDegC, 1, "float", PyNone).ret,
                 wave_height |-> extract_number(extract_text(soup.wave_height, NoneT),
                                                NumberCm, 1, "int", PyNone).ret])

---------------------------------------------------------------------------
(* main of src/src/scrape_prototype.py: the batch loop over the venues.    *)
(* A venue code is the number its two digits spell (sorted() of two-digit  *)
(* codes is the numeric order).  frame holds the loop's position, the      *)
(* sorted target venues, the index of the current one, the venues entered, *)
(* the log records written, the venues whose data were committed and       *)
(* whether a fetch was issued with no time.sleep(REQUEST_INTERVAL) since.  *)

MAX_VENUE_ID == 5

\* sorted(target_venues)
RECURSIVE sorted(_)
sorted(venues) ==
    IF venues = {} THEN <<>>
    ELSE LET jcd == CHOOSE x \in venues : \A y \in venues : x <= y
         IN  <<jcd>> \o sorted(venues \ {jcd})

\* [jcd for jcd in active_venues if int(jcd) <= MAX_VENUE_ID]
target_venues(active_venues) == {jcd \in active_venues : jcd <= MAX_VENUE_ID}

Log(f, level, what) ==
    Append(f.log, [jcd |-> f.venues[f.i], level |-> level, what |-> what])

\* mutant: the exception leaves the loop
loop_except_abort(f, what) ==
    [f EXCEPT !.pc = "done", !.log = Log(f, "error", what)]

\* except Exception as e: logger.error(...); the for loop takes the next venue
loop_except(f, what) ==
    [f EXCEPT !.pc = "loop", !.i = f.i + 1, !.log = Log(f, "error", what)]

\* logger.warning(...); continue
loop_continue(f, what) ==
    [f EXCEPT !.pc = "loop", !.i = f.i + 1, !.log = Log(f, "warning", what)]

\* fetch_html(url) was called
fetched(f) == [f EXCEPT !.fetched = TRUE]

Main(from, f) ==
    /\ frame.fn = "main"
    /\ frame.pc = from
    /\ frame' = f
    /\ UNCHANGED <<db, tx, pc, exc, raised, last, sent, nCalls>>

\* active_venues = get_active_venues(TARGET_DATE), which fetches the index
\* page; target_venues; return when empty
main_target_venues ==
    Main("start",
         fetched(IF target_venues(frame.active_venues) = {} THEN [frame EXCEPT !.pc = "done"]
                 ELSE [frame EXCEPT !.pc = "loop", !.i = 1,
                                    !.venues = sorted(target_venues(frame.active_venues))]))

\* for jcd in sorted(target_venues): the next venue, or the end of the loop
main_for ==
    Main("loop",
         IF frame.i > Len(frame.venues) THEN [frame EXCEPT !.pc = "done"]
         ELSE [frame EXCEPT !.pc = "race_card",
                            !.attempted = Append(frame.attempted, frame.venues[frame.i])])

\* race_card_html = fetch_html(urls["race_card"]); race_info = extract_race_info(...)
main_race_card ==
    \E outcome \in {"html", "None", "fetch raises", "extract_race_info raises"} :
        Main("race_card",
             fetched(CASE outcome = "html" -> [frame EXCEPT !.pc = "race_live_info"]
                       [] outcome = "None" -> loop_continue(frame, "race_card")
                       [] OTHER -> loop_except(frame, outcome)))

\* race_live_html = fetch_html(urls["race_live_info"]); extract_live_info(...)
main_race_live_info ==
    \E outcome \in {"html", "None", "fetch raises", "extract_live_info raises"} :
        Main("race_live_info",
             fetched(CASE outcome = "html" -> [frame EXCEPT !.pc = "entries"]
                       [] outcome = "None" ->
                            [frame EXCEPT !.pc = "entries",
                                          !.log = Log(frame, "warning", "race_live_info")]
                       [] OTHER -> loop_except(frame, outcome)))

\* entries = extract_entry_info(race_card_html); the merge of the live entries
main_entries ==
    \E outcome \in {"entries", "no entries", "extract_entry_info raises", "merge raises"} :
        Main("entries",
             CASE outcome = "entries" -> [frame EXCEPT !.pc = "save"]
               [] outcome = "no entries" -> loop_continue(frame, "entries")
               [] OTHER -> loop_except(frame, outcome))

\* session = Session(); try: add, flush, add, commit; except: rollback, log;
\* finally: close
main_save ==
    \E outcome \in {"commit", "rollback", "rollback raises", "close raises"} :
        Main("save",
             CASE outcome = "commit" ->
                    [frame EXCEPT !.pc = "sleep",
                                  !.saved = frame.saved \cup {frame.venues[frame.i]}]
               [] outcome = "rollback" ->
                    [frame EXCEPT !.pc = "sleep", !.log = Log(frame, "error", "save")]
               [] OTHER -> loop_except(frame, outcome))

\* time.sleep(REQUEST_INTERVAL)
main_sleep ==
    Main("sleep", [frame EXCEPT !.pc = "loop", !.i = frame.i + 1, !.fetched = FALSE])

---------------------------------------------------------------------------
(* fetch_html of src/src/scraping/scrape_util.py and of                    *)
(* src/src/scrape_prototype.py.  What requests.get does is the reply: the  *)
(* exception it raises ("" when none), the status of the response, its     *)
(* text under the declared and under the apparent encoding, and whether    *)
(* reading apparent_encoding raises.                                       *)

RequestExceptions == {"ConnectionError", "Timeout", "TooManyRedirects", "HTTPError"}

Reply(raises, status, text, apparent, detect_raises) ==
    [raises |-> raises, status |-> status, text |-> text, apparent |-> apparent,
     detect_raises |-> detect_raises]

\* response.raise_for_status(): HTTPError for a 4xx or 5xx status
raise_for_status(status) == IF 400 <= status /\ status < 600 THEN "HTTPError" ELSE ""

\* what the try block of scrape_util.fetch_html raises or returns
fetch_try(reply) ==
    IF reply.raises # "" THEN Raises(reply.raises)
    ELSE IF raise_for_status(reply.status) # "" THEN Raises(raise_for_status(reply.status))
    ELSE IF reply.detect_raises THEN Raises("LookupError")
    ELSE [exc |-> "", ret |-> reply.apparent]

\* scrape_util.fetch_html(url): except RequestException and except Exception
\* both return None
fetch_html(url, reply) ==
    LET r == fetch_try(reply)
    IN  IF r.exc # "" THEN [exc |-> "", ret |-> NoneT] ELSE r

\* what the try block of scrape_prototype.fetch_html raises or returns
prototype_fetch_try(reply) ==
    IF reply.raises # "" THEN Raises(reply.raises)
    ELSE IF raise_for_status(reply.status) # "" THEN Raises(raise_for_status(reply.status))
    ELSE [exc |-> "", ret |-> reply.text]

\* scrape_prototype.fetch_html(url): except RequestException returns None
prototype_fetch_html(url, reply) ==
    LET r == prototype_fetch_try(reply)
    IN  IF r.exc \in RequestExceptions THEN [exc |-> "", ret |-> NoneT]
        ELSE IF r.exc # "" THEN [exc |-> r.exc, ret |-> NoneT]
        ELSE r

---------------------------------------------------------------------------
(* parse_filename and calculate_term_dates of                              *)
(* src/src/fanbook/import_fanbook.py                                       *)

\* os.path.basename(filepath): what follows the last "/"
basename(filepath) ==
    LET sep == {i \in 1..Len(filepath) : filepath[i] = "/"}
    IN  IF sep = {} THEN filepath
        ELSE SubSeq(filepath, (CHOOSE i \in sep : \A j \in sep : j <= i) + 1, Len(filepath))

\* re.match(r"fan(\d{2})(\d{2})\.(csv|parquet)", filename): the pattern is
\* matched at the start of filename, what follows the match is not looked at
fan_match(filename) ==
    IF /\ LitAt(filename, 1, <<"f", "a", "n">>)
       /\ Len(filename) >= 8
       /\ \A i \in 4..7 : filename[i] \in Digit
       /\ filename[8] = "."
       /\ \/ LitAt(filename, 9, <<"c", "s", "v">>)
          \/ LitAt(filename, 9, <<"p", "a", "r", "q", "u", "e", "t">>)
    THEN [found |-> TRUE, g1 |-> SubSeq(filename, 4, 5), g2 |-> SubSeq(filename, 6, 7)]
    ELSE NoMatch

PyTerm(year, term) == [t |-> "tuple", year |-> year, term |-> term]

parse_filename(filepath) ==
    LET match == fan_match(basename(filepath))
    IN  IF ~match.found THEN Raises("ValueError")
        ELSE LET yy == int(match.g1).ret.v
                 mm == int(match.g2).ret.v
                 year == 2000 + yy
             IN  IF 4 <= mm /\ mm <= 9 THEN Returns(PyTerm(year, 1))
                 ELSE IF 10 <= mm /\ mm <= 12 THEN Returns(PyTerm(year, 2))
                 ELSE IF 1 <= mm /\ mm <= 3 THEN Returns(PyTerm(year - 1, 2))
                 ELSE Raises("ValueError")

date(y, m, d) == [y |-> y, m |-> m, d |-> d]
PyDates(calc_start, calc_end) ==
    [t |-> "tuple", calc_start |-> calc_start, calc_end |-> calc_end]

calculate_term_dates(year, term) ==
    IF term = 1 THEN Returns(PyDates(date(year, 4, 1), date(year, 9, 30)))
    ELSE IF term = 2 THEN Returns(PyDates(date(year, 10, 1), date(year + 1, 3, 31)))
    ELSE Raises("ValueError")

---------------------------------------------------------------------------
(* extract_race_results of src/src/scraping/result_scraper.py.  The page   *)
(* is the sequence of the tbody of its is-w495 tables; a tbody is the      *)
(* sequence of its rows; a row has the text of its first cell (NoneT: no   *)
(* cell), the text of its second cell and the N of its is-boatColorN class *)
(* (0: none), whether it has a third cell, whether that cell has a         *)
(* span.is-fs12 child, the texts of the registration number and name spans *)
(* and the text of its fourth cell.                                        *)

ResultRow(rank, lane, boat_color, player, is_fs12, reg_num, name, race_time) ==
    [rank |-> rank, lane |-> lane, boat_color |-> boat_color, player |-> player,
     is_fs12 |-> is_fs12, reg_num |-> reg_num, name |-> name, race_time |-> race_time]

\* mutant: every tbody is taken for a finish row
player_id_elem_check_any(tbody) == TRUE

\* tbody.select_one("tr > td:nth-child(3) > span.is-fs12")
player_id_elem_check(tbody) ==
    \E i \in 1..Len(tbody) : tbody[i].player /\ tbody[i].is_fs12

\* result["lane"]: the number in the text of the cell, else, when that is
\* None or 0, the N of its is-boatColorN class
result_lane(row) ==
    LET lane == extract_number(extract_text(row.lane, NoneT), Number, 1, "int", PyNone).ret
    IN  IF (lane = PyNone \/ lane = PyInt(0)) /\ row.lane # NoneT /\ row.boat_color \in 1..6
        THEN PyInt(row.boat_color) ELSE lane

\* the result dict built from the first row of a tbody
row_result(row) ==
    LET extracted_name == extract_text(row.name, NoneT)
    IN  [rank |-> extract_text(row.rank, NoneT),
         lane |-> result_lane(row),
         player_id |-> IF row.player
                       THEN extract_number(extract_text(row.reg_num, NoneT), Number, 1,
                                           "int", PyNone).ret
                       ELSE PyNone,
         name |-> IF row.player /\ extracted_name # NoneT
                  THEN str_replace(extracted_name, WideSpace) ELSE NoneT,
         race_time |-> extract_text(row.race_time, NoneT)]

\* the loop over all_tbody_elements
RECURSIVE results_loop(_)
results_loop(all_tbody_elements) ==
    IF all_tbody_elements = <<>> THEN <<>>
    ELSE LET tbody == Head(all_tbody_elements)
             rest == results_loop(Tail(all_tbody_elements))
         IN  IF ~player_id_elem_check(tbody) \/ tbody = <<>> THEN rest
             ELSE LET result == row_result(tbody[1])
                  IN  IF result.lane # PyNone /\ result.rank # NoneT
                      THEN <<result>> \o rest ELSE rest

\* mutant: the list is returned in document order
sort_by_lane_none(results) == results

\* results.sort(key=lambda x: x.get("lane", 99)): a stable sort
RECURSIVE sort_by_lane(_)
sort_by_lane(results) ==
    IF results = <<>> THEN <<>>
    ELSE LET n == Len(results)
             x == results[n]
             sorted_rest == sort_by_lane(SubSeq(results, 1, n - 1))
         IN  SelectSeq(sorted_rest, LAMBDA y : y.lane.v <= x.lane.v) \o <<x>>
             \o SelectSeq(sorted_rest, LAMBDA y : y.lane.v > x.lane.v)

extract_race_results(soup) == sort_by_lane(results_loop(soup))

---------------------------------------------------------------------------
(* The helper calls: frame holds the arguments when the helper is entered  *)
(* and the outcome once it has returned or raised.                         *)

Alphabet == {"1", "0", ",", ".", "m"}
Texts == {NoneT} \cup UNION {[1..n -> Alphabet] : n \in 0..MaxLen}
Patterns == {Number, NumberCommas, NumberDots, NumberM, OptNumberM}
Groups == {0, 1, 2}
Converters == {"int", "float", "lambda"}
Defaults == {PyNone, PyInt(0)}

extract_number_frames ==
    {[fn |-> "_extract_number", pc |-> "called", text |-> text, pattern |-> pattern,
      group |-> group, type_converter |-> conv, default |-> default, out |-> Returns(PyNone)] :
        text \in Texts, pattern \in Patterns, group \in Groups,
        conv \in Converters, default \in Defaults}

extract_number_call ==
    /\ frame.fn = "_extract_number"
    /\ frame.pc = "called"
    /\ frame' = [frame EXCEPT !.pc = "returned",
                    !.out = extract_number(frame.text, frame.pattern, frame.group,
                                           frame.type_converter, frame.default)]
    /\ UNCHANGED <<db, tx, pc, exc, raised, last, sent, nCalls>>

TextAlphabet == {" ", "\n", "-", "1"}
Pads == {<<>>, <<" ">>}
Elements ==
    {NoneT} \cup {l \o core \o r : l \in Pads, r \in Pads,
                     core \in UNION {[1..n -> TextAlphabet] : n \in 0..MaxLen}}

extract_text_frames ==
    {[fn |-> "_extract_text", pc |-> "called", element |-> element, default |-> default,
      out |-> NoneT] : element \in Elements, default \in {NoneT, <<"d">>}}

extract_text_call ==
    /\ frame.fn = "_extract_text"
    /\ frame.pc = "called"
    /\ frame' = [frame EXCEPT !.pc = "returned",
                    !.out = extract_text(frame.element, frame.default)]
    /\ UNCHANGED <<db, tx, pc, exc, raised, last, sent, nCalls>>

RegNum == <<"4", "1">>
Lane1 == Block(1, TRUE, RegNum, <<"A", "1">>, <<"a", WideSpace, "b">>, <<"1", "2">>)
Lane2 == Block(2, TRUE, <<" ", "4", "2", "B">>, NoneT, NoneT, NoneT)
NoBoatColor == [Lane1 EXCEPT !.boat_color = 0]
NoPlayerCell == [Lane1 EXCEPT !.boat_color = 3, !.player_info_td = FALSE, !.reg_num = NoneT,
                              !.class = NoneT, !.name = NoneT, !.motor = <<>>]
NoRegNum == [Lane2 EXCEPT !.boat_color = 4, !.reg_num = NoneT]
Blocks == {Lane1, Lane2, NoBoatColor, NoPlayerCell, NoRegNum}
BlockCounts == {0, 1, 2, 6}
Documents == UNION {[1..n -> Blocks] : n \in BlockCounts}

extract_race_entries_info_frames ==
    {[fn |-> "extract_race_entries_info", pc |-> "called", html |-> html, entries |-> <<>>] :
        html \in Documents}

extract_race_entries_info_call ==
    /\ frame.fn = "extract_race_entries_info"
    /\ frame.pc = "called"
    /\ frame' = [frame EXCEPT !.pc = "returned",
                    !.entries = extract_race_entries_info(frame.html)]
    /\ UNCHANGED <<db, tx, pc, exc, raised, last, sent, nCalls>>

MaxElems == 3
Boats ==
    {Boat({3}, <<".", "1", "2">>, FALSE), Boat({1}, <<"F", ".", "0", "1">>, TRUE),
     Boat({1}, NoneT, FALSE), Boat({2, 5}, <<"L">>, FALSE), Boat({}, <<".", "1">>, FALSE),
     Boat({7}, <<".", "1">>, FALSE)}
StartDisplays == UNION {[1..n -> Boats] : n \in 0..MaxElems}

extract_start_exhibition_info_frames ==
    {[fn |-> "extract_start_exhibition_info", pc |-> "called", soup |-> soup,
      start_exhibition |-> <<>>] : soup \in StartDisplays}

extract_start_exhibition_info_call ==
    /\ frame.fn = "extract_start_exhibition_info"
    /\ frame.pc = "called"
    /\ frame' = [frame EXCEPT !.pc = "returned",
                    !.start_exhibition = extract_start_exhibition_info(frame.soup)]
    /\ UNCHANGED <<db, tx, pc, exc, raised, last, sent, nCalls>>

CornerPng(n) == <<"/">> \o ImgCorner \o n \o <<".", "p", "n", "g">>
WindClasses == {{}, {5}, {16, 3}, {17}, {0}}
ImageIndices == {<<"9">>, <<"1", "6">>, <<"1", "7">>, <<"0">>}
WindImages ==
    {NoImg, NoSrc, <<"x", ".", "p", "n", "g">>} \cup {CornerPng(n) : n \in ImageIndices}
WindDirs ==
    {WindDir(FALSE, {}, NoImg)}
        \cup {WindDir(TRUE, classes, img) : classes \in WindClasses, img \in WindImages}
WeatherSoups ==
    {[weather_section |-> section, update_time |-> <<"1", "0">>, temp |-> temp,
      weather |-> <<"-", "-", "-">>, wind_speed |-> wind_speed, wind_dir_elem |-> wind_dir_elem,
      water_temp |-> <<"1", ".", "5", DegC>>, wave_height |-> <<"2", "c", "m">>] :
        section \in BOOLEAN, temp \in {NoneT, <<"2", "1", ".", "0", DegC>>},
        wind_speed \in {<<"3", "m">>, <<"m">>}, wind_dir_elem \in WindDirs}

extract_weather_info_frames ==
    {[fn |-> "extract_weather_info", pc |-> "called", soup |-> soup,
      out |-> Returns(NoWeatherInfo)] : soup \in WeatherSoups}

extract_weather_info_call ==
    /\ frame.fn = "extract_weather_info"
    /\ frame.pc = "called"
    /\ frame' = [frame EXCEPT !.pc = "returned", !.out = extract_weather_info(frame.soup)]
    /\ UNCHANGED <<db, tx, pc, exc, raised, last, sent, nCalls>>

VenueCodes == {1, 3, 5, 6}

main_frames ==
    {[fn |-> "main", pc |-> "start", active_venues |-> active_venues, venues |-> <<>>,
      i |-> 0, attempted |-> <<>>, log |-> <<>>, saved |-> {}, fetched |-> FALSE] :
        active_venues \in SUBSET VenueCodes}

Urls == {[page |-> page, jcd |-> jcd] :
            page \in {"index", "racelist", "beforeinfo", "raceresult"}, jcd \in {1, 24}}
Html == <<"<", "p", ">">>
Mojibake == <<"?", "p", "?">>
Replies ==
    {Reply(e, 0, <<>>, <<>>, FALSE) : e \in RequestExceptions \ {"HTTPError"}}
        \cup {Reply("UnicodeError", 0, <<>>, <<>>, FALSE)}
        \cup {Reply("", status, Mojibake, Html, detect_raises) :
                  status \in {200, 204, 300, 404, 503}, detect_raises \in BOOLEAN}

fetch_html_frames ==
    {[fn |-> "fetch_html", pc |-> "called", module |-> module, url |-> url, reply |-> reply,
      out |-> [exc |-> "", ret |-> NoneT]] :
        module \in {"scrape_util", "scrape_prototype"}, url \in Urls, reply \in Replies}

fetch_html_call ==
    /\ frame.fn = "fetch_html"
    /\ frame.pc = "called"
    /\ frame' = [frame EXCEPT !.pc = "returned",
                    !.out = IF frame.module = "scrape_util"
                            THEN fetch_html(frame.url, frame.reply)
                            ELSE prototype_fetch_html(frame.url, frame.reply)]
    /\ UNCHANGED <<db, tx, pc, exc, raised, last, sent, nCalls>>

Dirs == {<<>>, <<"d", "/">>}
Stems == {<<"f", "a", "n">>, <<"f", "a", "m">>}
Years == {<<"2", "4">>, <<"0", "0">>}
Months == {<<"0", "0">>, <<"0", "1">>, <<"0", "3">>, <<"0", "4">>, <<"0", "9">>,
           <<"1", "0">>, <<"1", "2">>, <<"1", "3">>, <<"1", "x">>}
DotCsv == <<".", "c", "s", "v">>
DotParquet == <<".", "p", "a", "r", "q", "u", "e", "t">>
Extensions == {DotCsv, DotParquet, DotCsv \o <<"x">>, <<".", "t", "x", "t">>}
FilePaths ==
    {dir \o stem \o yy \o mm \o ext :
        dir \in Dirs, stem \in Stems, yy \in Years, mm \in Months, ext \in Extensions}

parse_filename_frames ==
    {[fn |-> "parse_filename", pc |-> "called", filepath |-> filepath,
      out |-> Returns(PyNone), dates |-> Returns(PyNone)] : filepath \in FilePaths}

\* main: year, term = parse_filename(args.filepath)
parse_filename_call ==
    /\ frame.fn = "parse_filename"
    /\ frame.pc = "called"
    /\ frame' = [frame EXCEPT !.pc = "returned", !.out = parse_filename(frame.filepath)]
    /\ UNCHANGED <<db, tx, pc, exc, raised, last, sent, nCalls>>

\* main: calc_start, calc_end = calculate_term_dates(year, term)
calculate_term_dates_call ==
    /\ frame.fn = "parse_filename"
    /\ frame.pc = "returned"
    /\ frame.out.exc = ""
    /\ frame' = [frame EXCEPT !.fn = "calculate_term_dates",
                    !.dates = calculate_term_dates(frame.out.ret.year, frame.out.ret.term)]
    /\ UNCHANGED <<db, tx, pc, exc, raised, last, sent, nCalls>>

Yen == "Y"
Trio == <<"3", "T">>
Boats12 == <<Span(<<"1">>, 1), Span(<<" ", "2">>, 2)>>
BoatsByClass == <<Span(<<>>, 4), Span(<<"x">>, 0)>>
Paid == Row(Boats12, <<Yen, "1", ",", "2", "0", "0">>, <<"3">>)
PaidNothing == Row(BoatsByClass, <<Yen, "0">>, NoneT)
NoPayoutSpan == Row(Boats12, NoneT, <<"1">>)
Dashes == Row(Boats12, <<"-", "-", "-">>, NoneT)
CommaOnly == Row(BoatsByClass, <<",">>, NoneT)
NoBoats == Row(<<>>, <<"1", "0", "0">>, NoneT)
\* a row that starts with its combination cell: td 2 is the payout cell and
\* td 3 the popularity cell
Shifted == Row(<<>>, NoneT, NoneT)
TbodyElements ==
    {Tbody(TRUE, Trio, <<Paid, Dashes>>),
     Tbody(FALSE, NoneT, <<CommaOnly, PaidNothing>>),
     Tbody(FALSE, <<"W">>, <<NoPayoutSpan>>),
     Tbody(TRUE, <<" ">>, <<Paid>>),
     Tbody(FALSE, <<"H">>, <<NoBoats>>),
     NumberFirst(Span(<<"2">>, 2), <<Shifted>>)}
Soups ==
    {Soup(FALSE, <<>>), Soup(TRUE, <<>>)}
        \cup {Soup(TRUE, <<a>>) : a \in TbodyElements}
        \cup {Soup(TRUE, <<a, b>>) : a \in TbodyElements, b \in TbodyElements}
        \cup {Soup(TRUE, <<Tbody(TRUE, Trio, <<Paid>>),
                           NumberFirst(Span(<<"2">>, 2), <<Shifted>>),
                           Tbody(FALSE, <<" ">>, <<PaidNothing>>)>>)}

extract_payouts_frames ==
    {[fn |-> "extract_payouts", pc |-> "called", soup |-> soup, payouts_data |-> <<>>] :
        soup \in Soups}

extract_payouts_call ==
    /\ frame.fn = "extract_payouts"
    /\ frame.pc = "called"
    /\ frame' = [frame EXCEPT !.pc = "returned",
                    !.payouts_data = extract_payouts(frame.soup)]
    /\ UNCHANGED <<db, tx, pc, exc, raised, last, sent, nCalls>>

---------------------------------------------------------------------------
(* Specifications *)

Closed ==
    /\ db = EmptyTables
    /\ tx = EmptyTables
    /\ pc = "closed"
    /\ exc = ""
    /\ raised = ""
    /\ last = NoCall
    /\ sent = NothingSent
    /\ nCalls = 0

Init == Closed /\ frame = NoFrame

Session ==
    \/ session_scope_enter
    \/ session_scope_commit
    \/ session_scope_commit_fails
    \/ session_scope_except
    \/ body_raises

\* the race pipeline: Race, RaceEntry and Payout writes in any order
Next ==
    \/ Session
    \/ call_get_or_create_race(RaceData)
    \/ call_update_race_weather(WeatherData)
    \/ call_upsert_race_entry(WaveData)
    \/ call_create_payouts(PayoutLists)

Spec == Init /\ [][Next]_vars

\* the entries of one race, every field combination
NextEntry ==
    \/ Session
    \/ call_get_or_create_race({FullRaceData, [FullRaceData EXCEPT !.weather = AbsentS],
                                [FullRaceData EXCEPT !.hd = NoneS]})
    \/ call_upsert_race_entry(EntryData)

SpecEntry == Init /\ [][NextEntry]_vars

\* the player master: get_or_create_player
NextPlayer ==
    \/ Session
    \/ call_get_or_create_player(PlayerData)

SpecPlayer == Init /\ [][NextPlayer]_vars

\* the three calls that require an identity, with and without it
IdentityRaceData ==
    {FullRaceData, [FullRaceData EXCEPT !.jcd = "02"],
     [FullRaceData EXCEPT !.hd = AbsentS], [FullRaceData EXCEPT !.jcd = NoneS],
     [FullRaceData EXCEPT !.rno = AbsentI], [FullRaceData EXCEPT !.season_year = AbsentI],
     [FullRaceData EXCEPT !.season_term = NoneI]}

IdentityEntryData ==
    {FullEntryData, [FullEntryData EXCEPT !.lane = 2, !.class = "B1"],
     [FullEntryData EXCEPT !.race_id = NoneI], [FullEntryData EXCEPT !.lane = AbsentI],
     [FullEntryData EXCEPT !.player_id = AbsentI]}

IdentityPlayerData ==
    {Sato, [Sato EXCEPT !.player_id = AbsentI], [Sato EXCEPT !.player_id = NoneI]}

NextIdentity ==
    \/ Session
    \/ call_get_or_create_race(IdentityRaceData)
    \/ call_upsert_race_entry(IdentityEntryData)
    \/ call_get_or_create_player(IdentityPlayerData)

SpecIdentity == Init /\ [][NextIdentity]_vars

\* the result page scraped and the payouts stored
InitPayout == Closed /\ frame \in extract_payouts_frames

NextPayout ==
    \/ Session
    \/ call_get_or_create_race({FullRaceData})
    \/ call_create_payouts({<<>>, <<Trifecta, Win>>, <<NoAmount, Win>>})
    \/ extract_payouts_call

SpecPayout == InitPayout /\ [][NextPayout]_vars

\* _extract_number on every text, pattern, group, converter and default
InitNumber == Closed /\ frame \in extract_number_frames

NextNumber == extract_number_call

SpecNumber == InitNumber /\ [][NextNumber]_vars

\* _extract_text on every element text and default
InitText == Closed /\ frame \in extract_text_frames

NextText == extract_text_call

SpecText == InitText /\ [][NextText]_vars

\* extract_race_entries_info on every document
InitEntries == Closed /\ frame \in extract_race_entries_info_frames

NextEntries == extract_race_entries_info_call

SpecEntries == InitEntries /\ [][NextEntries]_vars

\* extract_start_exhibition_info on every order of the elements
InitExhibition == Closed /\ frame \in extract_start_exhibition_info_frames

NextExhibition == extract_start_exhibition_info_call

SpecExhibition == InitExhibition /\ [][NextExhibition]_vars

\* extract_weather_info on every weather section
InitWeather == Closed /\ frame \in extract_weather_info_frames

NextWeather == extract_weather_info_call

SpecWeather == InitWeather /\ [][NextWeather]_vars

\* the batch over the venues; main is one sequential program, so a step that
\* can be taken is taken
InitBatch == Closed /\ frame \in main_frames

NextBatch ==
    \/ main_target_venues
    \/ main_for
    \/ main_race_card
    \/ main_race_live_info
    \/ main_entries
    \/ main_save
    \/ main_sleep

SpecBatch == InitBatch /\ [][NextBatch]_vars /\ WF_vars(NextBatch)

\* fetch_html of both modules on every reply of the server
InitFetch == Closed /\ frame \in fetch_html_frames

NextFetch == fetch_html_call

SpecFetch == InitFetch /\ [][NextFetch]_vars

\* the fan-book import up to the term dates
InitFile == Closed /\ frame \in parse_filename_frames

NextFile ==
    \/ parse_filename_call
    \/ calculate_term_dates_call

SpecFile == InitFile /\ [][NextFile]_vars

---------------------------------------------------------------------------
(* Claims about the persistence layer *)

EntriesOf(t, race_id, lane) == Count(t.entry, LAMBDA x : x.race_id = race_id /\ x.lane = lane)
RacesOf(t, rd) == Count(t.race, LAMBDA x : RaceIdentity(x) = RaceIdentity(rd))

\* the second of two upserts of one record has just returned
UpsertedTwice == last.op = "upsert_race_entry" /\ last.twice /\ last.exc = ""
\* get_or_create_race has just returned for a race an earlier call created
RaceCalledAgain == last.op = "get_or_create_race" /\ last.existed /\ last.exc = ""

\* a supplied parts_changed value and a stored column are the same value
\* (the column is text or NULL, so it is never equal to a list)
SamePartsValue(column, pv) ==
    IF pv.kind = "none" THEN column = NoneS
    ELSE IF pv.kind = "str" THEN column = pv.s
    ELSE FALSE

\* the plain fields of the record are the row's values
PlainFieldsStored(e, ed) ==
    /\ e.player_id = ed.player_id
    /\ ed.age # AbsentI => e.age = ed.age
    /\ ed.rank # AbsentI => e.rank = ed.rank

\* C1 as stated: after the same Race + RaceEntry payload is upserted twice
\* there is exactly one Race row, exactly one RaceEntry row for the
\* (race, lane), and every stored field equals the value the second call
\* supplied.
C1_Original ==
    /\ RaceCalledAgain => RacesOf(tx, last.rd) = 1
    /\ UpsertedTwice =>
          /\ EntriesOf(tx, last.ed.race_id, last.ed.lane) = 1
          /\ \A e \in get_race_entry(tx, last.ed.race_id, last.ed.lane) :
                /\ PlainFieldsStored(e, last.ed)
                /\ last.ed.class_ # AbsentS => e.class_ = last.ed.class_
                /\ (last.ed.class_ = AbsentS /\ last.ed.class # AbsentS)
                      => e.class_ = last.ed.class
                /\ last.ed.parts_changed.kind # "absent"
                      => SamePartsValue(e.parts_changed, last.ed.parts_changed)

\* C1 amended: after the same Race + RaceEntry payload is upserted twice
\* there is exactly one Race row and exactly one RaceEntry row for the
\* (race, lane); every plain field equals the value the second call supplied,
\* class is the supplied class_ unless that is missing, None or empty, when it
\* is the supplied class, and a parts_changed list is stored as its JSON text.
C1_Idempotent ==
    /\ RaceCalledAgain => RacesOf(tx, last.rd) = 1
    /\ UpsertedTwice =>
          /\ EntriesOf(tx, last.ed.race_id, last.ed.lane) = 1
          /\ \A e \in get_race_entry(tx, last.ed.race_id, last.ed.lane) :
                /\ PlainFieldsStored(e, last.ed)
                /\ (last.ed.class_ # AbsentS \/ last.ed.class # AbsentS) =>
                      e.class_ = IF last.ed.class_ \in {AbsentS, NoneS, ""}
                                 THEN GetS(last.ed.class) ELSE last.ed.class_
                /\ last.ed.parts_changed.kind \in {"none", "str"}
                      => SamePartsValue(e.parts_changed, last.ed.parts_changed)
                /\ last.ed.parts_changed.kind = "list"
                      => e.parts_changed = json_dumps(last.ed.parts_changed.l)

\* C1 witness: a race was created, and the second upsert of one record that
\* carries a parts_changed list has just returned
C1_Witness ==
    /\ UpsertedTwice
    /\ last.ed.parts_changed.kind = "list"
    /\ race_by_id(tx, last.ed.race_id) # {}

\* C2: the store, committed or seen by the session, never holds two Race rows
\* with one (hd, jcd, rno) nor two RaceEntry rows with one (race_id, lane).
C2_Unique ==
    \A t \in {db, tx} :
        /\ \A r \in Rows(t.race) : RacesOf(t, r) = 1
        /\ \A e \in Rows(t.entry) : EntriesOf(t, e.race_id, e.lane) = 1

\* C2 witness: a race is committed, an entry is staged and get_or_create_race
\* was called again for an existing race
C2_Witness ==
    /\ RaceCalledAgain
    /\ Rows(db.race) # {}
    /\ Rows(tx.entry) # {}

\* the Payout rows of a race, as a bag
PayoutsOf(t, race_id) == [r \in {x \in Rows(t.payout) : x.race_id = race_id} |-> t.payout[r]]

\* the row a payout record describes
PayoutRow(race_id, pd) ==
    [race_id |-> race_id, bet_type |-> GetS(pd.bet_type),
     combination |-> GetS(pd.combination), amount |-> GetI(pd.amount),
     popularity |-> GetI(pd.popularity)]

\* the records of the list have exactly the rows of bag b, as often
RowsAre(b, race_id, pl, Wanted(_)) ==
    /\ \A r \in Rows(b) :
          b[r] = Cardinality({i \in 1..Len(pl) : Wanted(pl[i]) /\ PayoutRow(race_id, pl[i]) = r})
    /\ \A i \in 1..Len(pl) : Wanted(pl[i]) => PayoutRow(race_id, pl[i]) \in Rows(b)

\* create_payouts(race, B) has just returned for a race that had payouts (A)
PayoutsReplaced == last.op = "create_payouts" /\ last.existed /\ last.exc = ""

\* C3 as stated: create_payouts(race, A) then create_payouts(race, B) leaves
\* exactly the rows of B for the race, for every A and B.
C3_Original ==
    PayoutsReplaced =>
        RowsAre(PayoutsOf(tx, last.rid), last.rid, last.pl, LAMBDA pd : TRUE)

HasAll(pd) ==
    TruthyS(pd.bet_type) /\ TruthyS(pd.combination) /\ TruthyI(pd.amount)

\* C3 amended: create_payouts(race, A) then create_payouts(race, B) with a
\* non-empty B leaves for the race exactly one row per record of B that has
\* bet_type, combination and amount: no row of A remains, no row of B twice.
C3_Replace ==
    (PayoutsReplaced /\ last.pl # <<>>) =>
        RowsAre(PayoutsOf(tx, last.rid), last.rid, last.pl, HasAll)

\* C3 witness: a non-empty B has replaced the rows of an A
C3_Witness ==
    /\ PayoutsReplaced
    /\ last.pl # <<>>
    /\ PayoutsOf(tx, last.rid) # EmptyBag


\* the tables with the rowids of the races left out
SameRows(a, b) ==
    /\ a.entry = b.entry /\ a.payout = b.payout /\ a.player = b.player
    /\ {RaceIdentity(r) : r \in Rows(a.race)} = {RaceIdentity(r) : r \in Rows(b.race)}
    /\ \A r \in Rows(a.race) : \E q \in Rows(b.race) :
          [r EXCEPT !.race_id = NoneI] = [q EXCEPT !.race_id = NoneI]

\* C5: a unit of work in session_scope is atomic.  Nothing is persisted while
\* the body runs; when the body returns and the commit succeeds every staged
\* write is committed; when the body or the commit raises none is, and the
\* exception reaches the caller; either way the session ends closed.
C5_Atomic ==
    [][ /\ pc' # "closed" => db' = db
        /\ (pc = "body" /\ pc' = "closed" /\ raised' = "") =>
              /\ SameRows(db', tx)
              /\ \A r \in Rows(db'.race) : r.race_id # NoneI
        /\ (pc' = "closed" /\ raised' # "") => db' = db
        /\ pc = "raising" => (pc' = "closed" /\ raised' = exc /\ exc # "")
      ]_vars

\* C5 witness: a unit that staged a write has failed after an earlier unit
\* was committed
C5_Witness ==
    /\ pc = "closed"
    /\ raised = "ValueError"
    /\ nCalls >= 2
    /\ Rows(db.entry) # {}

\* C6: an upsert of an existing (race_id, lane) leaves every field whose key
\* the record lacks as it was stored, and overwrites the fields whose keys it
\* has.
C6_Frame ==
    [][ (last'.op = "upsert_race_entry" /\ last'.exc = "" /\ last'.existed) =>
          \A old \in get_race_entry(tx, last'.ed.race_id, last'.ed.lane) :
          \A new \in get_race_entry(tx', last'.ed.race_id, last'.ed.lane) :
             /\ (last'.ed.class_ = AbsentS /\ last'.ed.class = AbsentS)
                   => new.class_ = old.class_
             /\ new.age = IF last'.ed.age = AbsentI THEN old.age ELSE last'.ed.age
             /\ new.rank = IF last'.ed.rank = AbsentI THEN old.rank ELSE last'.ed.rank
             /\ last'.ed.parts_changed.kind = "absent"
                   => new.parts_changed = old.parts_changed
             /\ new.player_id = last'.ed.player_id
      ]_vars

\* C6 witness: an upsert without the class, age and parts_changed keys has
\* just returned and the row still holds the values stored earlier
C6_Witness ==
    /\ last.op = "upsert_race_entry" /\ last.exc = "" /\ last.existed
    /\ last.ed.rank = 1
    /\ \E e \in get_race_entry(tx, last.ed.race_id, last.ed.lane) :
          e.class_ = "A1" /\ e.age = 30 /\ e.rank = 1

\* C7: get_or_create_player for a stored player_id adds no Player row and
\* keeps the player_id; a non-empty incoming name that differs replaces the
\* stored name; branch, hometown and birth_date stay as stored.
C7_Player ==
    [][ (last'.op = "get_or_create_player" /\ last'.exc = "" /\ last'.existed) =>
          /\ BagCardinality(tx'.player) = BagCardinality(tx.player)
          /\ \A old \in player_by_id(tx, last'.pd.player_id) :
                /\ Count(tx'.player, LAMBDA x : x.player_id = old.player_id) = 1
                /\ \A new \in player_by_id(tx', last'.pd.player_id) :
                      /\ new.name = IF TruthyS(last'.pd.name) THEN last'.pd.name
                                    ELSE old.name
                      /\ new.branch = old.branch
                      /\ new.hometown = old.hometown
                      /\ new.birth_date = old.birth_date
      ]_vars

\* C7 witness: a stored player was seen again under another name and with
\* another branch
C7_Witness ==
    /\ last.op = "get_or_create_player" /\ last.exc = "" /\ last.existed
    /\ last.pd.name = "Suzuki" /\ last.pd.branch = "Osaka"
    /\ \E p \in player_by_id(tx, last.pd.player_id) :
          p.name = "Suzuki" /\ p.branch = "Tokyo"

Keys(b) == {EntryKey(e) : e \in Rows(b)}

\* C8: a RaceEntry row, once committed, is in every later committed state,
\* and a row the session holds is still held after every persistence call
\* (upsert_race_entry, update_race_weather, create_payouts,
\* get_or_create_race): no call deletes it.
C8_Kept ==
    [][ /\ Keys(db.entry) \subseteq Keys(db'.entry)
        /\ last'.op # "none" => Keys(tx.entry) \subseteq Keys(tx'.entry)
      ]_vars

\* C8 witness: payouts were stored for a race whose entry is still held
C8_Witness ==
    /\ last.op = "create_payouts" /\ last.exc = "" /\ last.pl # <<>>
    /\ \E e \in Rows(tx.entry) : e.race_id = last.rid /\ e.rank = 1

---------------------------------------------------------------------------
(* Claims about the scraping helpers and the fan-book import *)

\* the payout_info records extract_payouts returned
Extracted ==
    IF frame.fn = "extract_payouts" /\ frame.pc = "returned"
    THEN UNION {{frame.payouts_data[k][i] : i \in 1..Len(frame.payouts_data[k])} :
                    k \in DOMAIN frame.payouts_data}
    ELSE {}

\* C4: no Payout row with a null amount is ever in the committed tables or
\* in the session, and no payout_info returned by extract_payouts has a
\* None payout.
C4_NoNullAmount ==
    /\ \A x \in Rows(db.payout) \cup Rows(tx.payout) : x.amount # NoneI
    /\ \A payout_info \in Extracted : payout_info.payout # PyNone

\* a page with a paid row and a "---" row was scraped to the paid row alone,
\* and create_payouts stored the record with an amount of a list that also
\* holds a record without one
C4_Witness ==
    /\ frame.fn = "extract_payouts" /\ frame.pc = "returned"
    /\ frame.soup = Soup(TRUE, <<Tbody(TRUE, Trio, <<Paid, Dashes>>)>>)
    /\ Len(frame.payouts_data[Trio]) = 1
    /\ last.op = "create_payouts" /\ last.exc = "" /\ last.pl = <<NoAmount, Win>>
    /\ \E x \in Rows(tx.payout) : x.race_id = last.rid /\ x.bet_type = Win.bet_type

\* filename is exactly fanYYMM.csv or fanYYMM.parquet
FanName(filename) ==
    \E ext \in {DotCsv, DotParquet} :
        /\ Len(filename) = 7 + Len(ext)
        /\ SubSeq(filename, 1, 3) = <<"f", "a", "n">>
        /\ \A i \in 4..7 : filename[i] \in Digit
        /\ SubSeq(filename, 8, Len(filename)) = ext

\* the term the calendar rule gives to the file name
TermOf(filename) ==
    IF ~FanName(filename) THEN Raises("ValueError")
    ELSE LET yy == DecimalValue(SubSeq(filename, 4, 5))
             mm == DecimalValue(SubSeq(filename, 6, 7))
         IN  IF mm \in 4..9 THEN Returns(PyTerm(2000 + yy, 1))
             ELSE IF mm \in 10..12 THEN Returns(PyTerm(2000 + yy, 2))
             ELSE IF mm \in 1..3 THEN Returns(PyTerm(2000 + yy - 1, 2))
             ELSE Raises("ValueError")

\* C9: parse_filename returns term 1 of 2000+YY for MM in 4..9, term 2 of
\* 2000+YY for MM in 10..12 and term 2 of 2000+YY-1 for MM in 1..3 of a
\* name fanYYMM.csv / fanYYMM.parquet, and raises ValueError for any other
\* month or name; the term is 1 or 2 and the term dates are 04-01..09-30 of
\* the year for term 1, 10-01..03-31 of the next year for term 2.
C9_Original ==
    frame.fn \in {"parse_filename", "calculate_term_dates"} /\ frame.pc = "returned"
    => /\ frame.out = TermOf(basename(frame.filepath))
       /\ frame.out.exc = "" => frame.out.ret.term \in {1, 2}
       /\ frame.fn = "calculate_term_dates"
          => LET year == frame.out.ret.year
             IN  frame.dates =
                    IF frame.out.ret.term = 1
                    THEN Returns(PyDates(date(year, 4, 1), date(year, 9, 30)))
                    ELSE Returns(PyDates(date(year, 10, 1), date(year + 1, 3, 31)))

\* C10: no exception escapes _extract_number; it returns the converted
\* capture group when the text is present, the pattern matches, the group
\* exists and is not empty and the conversion succeeds, and default otherwise.
C10_Original ==
    frame.fn = "_extract_number" /\ frame.pc = "returned"
    => LET match == re_search(frame.pattern, frame.text)
           present == frame.text # NoneT /\ frame.text # <<>>
           g == IF present /\ match.found THEN match_group(match, frame.group)
                ELSE Raises("NoMatch")
           c == IF g.exc = "" /\ g.ret # NoneT /\ g.ret # <<>>
                THEN type_converter(frame.type_converter, g.ret)
                ELSE Raises("NoGroup")
       IN  /\ frame.out.exc = ""
           /\ frame.out.ret = IF c.exc = "" THEN c.ret ELSE frame.default

\* the text without its leading and trailing whitespace
Trimmed(text) ==
    LET ink == {i \in 1..Len(text) : text[i] \notin Whitespace}
    IN  IF ink = {} THEN <<>>
        ELSE SubSeq(text, CHOOSE i \in ink : \A j \in ink : i <= j,
                          CHOOSE i \in ink : \A j \in ink : j <= i)

\* C11: _extract_text returns the trimmed text of the node, and default when
\* the node is absent, the trimmed text is empty or the trimmed text is "---".
C11_Text ==
    frame.fn = "_extract_text" /\ frame.pc = "returned"
    => frame.out =
          IF \/ frame.element = NoneT
             \/ Trimmed(frame.element) = <<>>
             \/ Trimmed(frame.element) = <<"-", "-", "-">>
          THEN frame.default ELSE Trimmed(frame.element)

\* a padded "---" gave the default, and a padded text gave the text trimmed
C11_Witness ==
    /\ frame.fn = "_extract_text" /\ frame.pc = "returned"
    /\ \/ frame.element = <<" ", "-", "-", "-", " ">> /\ frame.out = <<"d">>
       \/ frame.element = <<" ", "1", " ", "1", " ">> /\ frame.out = <<"1", " ", "1">>

\* the block has its lane colour class and its registration number
HasIdentity(tbody) ==
    /\ tbody.boat_color \in 1..6
    /\ tbody.player_info_td
    /\ tbody.reg_num # NoneT

\* the lanes of the blocks that have their identity, in document order
IdentifiedLanes(html) ==
    LET kept == SelectSeq(html, HasIdentity)
    IN  [i \in 1..Len(kept) |-> kept[i].boat_color]

\* C12: for a document of up to 6 blocks of which at least one lacks its
\* lane colour class or its registration number element or cell, the
\* extractor returns the lanes of the other blocks and no other, fewer than
\* 6 records in all.
C12_Original ==
    /\ frame.fn = "extract_race_entries_info" /\ frame.pc = "returned"
    /\ Len(frame.html) <= 6
    /\ \E i \in 1..Len(frame.html) : ~HasIdentity(frame.html[i])
    => /\ Len(frame.entries) < 6
       /\ [i \in 1..Len(frame.entries) |-> frame.entries[i].lane] = IdentifiedLanes(frame.html)

\* C13: whatever the order of the elements in the document, the entries
\* extract_start_exhibition_info returns are in ascending course order and
\* each has a course in 1..6.
C13_Sorted ==
    frame.fn = "extract_start_exhibition_info" /\ frame.pc = "returned"
    => LET out == frame.start_exhibition
       IN  /\ \A i \in 1..Len(out) : out[i].course \in 1..6
           /\ \A i \in 1..Len(out) : \A j \in i..Len(out) : out[i].course <= out[j].course

\* a document with courses 3, 2, 1 in that order was returned as 1, 2, 3
C13_Witness ==
    /\ frame.fn = "extract_start_exhibition_info" /\ frame.pc = "returned"
    /\ Len(frame.soup) = 3
    /\ [i \in 1..3 |-> first_type(frame.soup[i].types)] = <<3, 2, 1>>
    /\ [i \in 1..Len(frame.start_exhibition) |-> frame.start_exhibition[i].course]
           = <<1, 2, 3>>

\* C14: the wind direction is the N of an is-windN class (N in 1..16) of the
\* class list when there is one, comes from the image file name only when
\* there is none, and, when present, is in 1..16.
C14_Original ==
    /\ frame.fn = "extract_weather_info" /\ frame.pc = "returned"
    /\ frame.out.exc = "" /\ frame.soup.weather_section
    => LET elem == frame.soup.wind_dir_elem
           dir == frame.out.ret.wind_direction
       IN  /\ elem.classes \cap (1..16) # {} => dir \in elem.classes \cap (1..16)
           /\ dir # AbsentI => dir \in 1..16
           /\ dir # AbsentI /\ dir \notin elem.classes
              => /\ elem.classes \cap (1..16) = {}
                 /\ \E n \in ImageIndices : elem.img = CornerPng(n) /\ dir = DecimalValue(n)

\* the venues of the batch, ascending
Targets == sorted(target_venues(frame.active_venues))

\* the venues entered so far are the first of the targets, in order, each once
AttemptedInOrder ==
    /\ Len(frame.attempted) <= Len(Targets)
    /\ frame.attempted = SubSeq(Targets, 1, Len(frame.attempted))

\* every failure record in the log is that of a venue entered, and no venue
\* has more than one failure record of one kind
FailuresLogged ==
    /\ \A k \in 1..Len(frame.log) :
          \E a \in 1..Len(frame.attempted) : frame.attempted[a] = frame.log[k].jcd
    /\ \A k \in 1..Len(frame.log) : \A l \in 1..Len(frame.log) :
          frame.log[k] = frame.log[l] => k = l

\* every venue entered and left was saved or has a failure record
Accounted ==
    \A a \in 1..Len(frame.attempted) :
        \/ a = Len(frame.attempted) /\ frame.pc \notin {"loop", "done"}
        \/ frame.attempted[a] \in frame.saved
        \/ \E k \in 1..Len(frame.log) :
              frame.log[k].jcd = frame.attempted[a] /\ frame.log[k].what # "race_live_info"

\* C15: every target venue is attempted exactly once, in ascending order,
\* whatever fails at a venue is logged and not retried, and the loop comes
\* to its end having attempted all of them.
C15_Batch ==
    /\ [](frame.fn = "main" => AttemptedInOrder /\ FailuresLogged /\ Accounted)
    /\ <>(frame.fn = "main" /\ frame.pc = "done" /\ frame.attempted = Targets)

\* the batch ended after a fetch failure at venue 1, an extraction exception
\* at venue 3 and a rolled back save at venue 5
C15_Witness ==
    /\ frame.fn = "main" /\ frame.pc = "done"
    /\ frame.attempted = <<1, 3, 5>>
    /\ frame.saved = {}
    /\ [k \in 1..Len(frame.log) |-> frame.log[k].what]
           = <<"race_card", "extract_race_info raises", "save">>

\* the request succeeded: no exception (in scrape_util, none either when the
\* encoding is detected) and a 2xx status
Succeeded(module, reply) ==
    /\ reply.raises = ""
    /\ module = "scrape_util" => ~reply.detect_raises
    /\ 200 <= reply.status /\ reply.status < 300

\* C16: fetch_html never raises; it returns None for every failure of the
\* request (network error, timeout, non-2xx status, any other exception) and
\* the text of the response on success only.
C16_Original ==
    frame.fn = "fetch_html" /\ frame.pc = "returned"
    => /\ frame.out.exc = ""
       /\ ~Succeeded(frame.module, frame.reply) => frame.out.ret = NoneT
       /\ Succeeded(frame.module, frame.reply)
          => frame.out.ret \in {frame.reply.text, frame.reply.apparent}

\* the rows of the race a Race call is about, as the call finds them
RaceRowsOf(t, call) ==
    {r \in Rows(autoflush(t).race) :
        IF call.op = "get_or_create_race" THEN RaceIdentity(r) = RaceIdentity(call.rd)
        ELSE r.race_id = call.rid}

\* the weather and the wind the caller supplied (AbsentS: not supplied)
SuppliedWeather(call) ==
    IF call.op = "get_or_create_race" THEN call.rd.weather ELSE call.wd.weather
SuppliedWind(call) ==
    IF call.op = "get_or_create_race" THEN call.rd.wind_dir
    ELSE IF call.wd.wind_dir = AbsentS /\ call.wd.wind_direction = AbsentS THEN AbsentS
    ELSE OrS(GetS(call.wd.wind_dir), GetS(call.wd.wind_direction))

\* C17: a Race call (get_or_create_race, update_race_weather) on a race that
\* exists stores the fields the caller supplied in the row of that race and
\* leaves the fields not supplied as they were.
C17_Original ==
    [][last'.op \in {"get_or_create_race", "update_race_weather"}
         /\ last'.existed /\ last'.exc = ""
       => \A b \in RaceRowsOf(tx, last') :
            \E a \in Rows(tx'.race) :
                /\ a.race_id = b.race_id
                /\ a.weather = IF SuppliedWeather(last') # AbsentS
                               THEN SuppliedWeather(last') ELSE b.weather
                /\ a.wind_dir = IF SuppliedWind(last') # AbsentS
                                THEN SuppliedWind(last') ELSE b.wind_dir]_vars

\* the stored entries the call found with another player_id
ConflictingEntries(t, call) ==
    {e \in Rows(t.entry) : EntryKey(e) = EntryKey(call.ed)
                              /\ e.player_id # call.ed.player_id}

EntriesOfRace(t, race_id) == Count(t.entry, LAMBDA x : x.race_id = race_id)

\* the levels an update of an entry with the stored player_id logs
OrdinaryUpdateLevels == {"debug"}

\* C18: an upsert_race_entry whose player_id differs from the one stored for
\* an existing (race_id, lane) stores the incoming player_id, leaves the
\* number of entries of the race as it was, and logs a warning, a level
\* above that of an ordinary update
C18_Overwrite ==
    [][last'.op = "upsert_race_entry" /\ last'.exc = ""
         /\ ConflictingEntries(tx, last') # {}
       => /\ ConflictingEntries(tx', last') = {}
          /\ EntriesOf(tx', last'.ed.race_id, last'.ed.lane) = 1
          /\ EntriesOfRace(tx', last'.ed.race_id) = EntriesOfRace(tx, last'.ed.race_id)
          /\ \E i \in DOMAIN last'.log : last'.log[i] = "warning"
          /\ \A l \in OrdinaryUpdateLevels : LevelNo["warning"] > LevelNo[l]]_vars

\* an entry stored for player 4001 has just been overwritten for player 4002
C18_Witness ==
    /\ last.op = "upsert_race_entry" /\ last.existed /\ last.exc = ""
    /\ last.ed.player_id = 4002
    /\ last.log = <<"debug", "warning">>
    /\ sent[EntryKey(last.ed)].player_id = 4002
    /\ EntriesOf(tx, last.ed.race_id, last.ed.lane) = 1
    /\ \E k \in EntryKeys : k # EntryKey(last.ed) /\ sent[k].player_id = 4001

\* the tbody has a label cell of its own: its first cell is not a combination
\* cell and spans rows or has a text
LabelCell(tbody) ==
    /\ tbody.bet_type # NoneT /\ ~tbody.number
    /\ tbody.rowspan \/ extract_text(tbody.bet_type, NoneT) # NoneT

\* the rows filed under key by the carry-forward rule
RECURSIVE CarriedUnder(_, _, _)
CarriedUnder(key, tbody_elements, label) ==
    IF tbody_elements = <<>> THEN <<>>
    ELSE LET tbody == Head(tbody_elements)
             current == IF LabelCell(tbody) THEN extract_text(tbody.bet_type, NoneT)
                        ELSE label
         IN  (IF current = key THEN tbody_rows(tbody.rows) ELSE <<>>)
             \o CarriedUnder(key, Tail(tbody_elements), current)

FiledUnder(key, payouts_data) ==
    IF key \in DOMAIN payouts_data THEN payouts_data[key] ELSE <<>>

PayoutKeys(f) ==
    DOMAIN f.payouts_data
        \cup {extract_text(f.soup.tbody_elements[i].bet_type, NoneT) :
                  i \in 1..Len(f.soup.tbody_elements)}

\* C19: extract_payouts files every payout row under the label of the most
\* recent tbody that has a label cell; a tbody without a label cell of its
\* own leaves the current label as it is and its rows go under no other key
C19_Original ==
    frame.fn = "extract_payouts" /\ frame.pc = "returned" /\ frame.soup.payout_table
        => \A key \in PayoutKeys(frame) \ {NoneT} :
              FiledUnder(key, frame.payouts_data)
                  = CarriedUnder(key, frame.soup.tbody_elements, NoneT)

---------------------------------------------------------------------------
(* extract_race_results: the pages, the call and its specification *)

MaxTbody == 3
Time == <<"1", "'", "5">>
First == <<ResultRow(<<"1">>, <<" ", "2">>, 2, TRUE, TRUE, <<"4", "2">>,
                     <<"a", WideSpace, "b">>, Time)>>
Flying == <<ResultRow(<<"F">>, <<"0">>, 3, TRUE, TRUE, <<>>, NoneT, NoneT)>>
\* a payout tbody: bet type, combination, payout, popularity
PayoutTbody == <<ResultRow(Trio, <<"1", "-", "4">>, 0, TRUE, FALSE, NoneT, NoneT, <<"3">>)>>
NoLane == <<ResultRow(<<"2">>, <<"x">>, 0, TRUE, TRUE, <<"4", "2">>, NoneT, Time)>>
NoRank == <<ResultRow(<<"-", "-", "-">>, <<"5">>, 5, TRUE, TRUE, <<"7">>, NoneT, Time)>>
\* the registration number span is in the second row of the tbody
SecondRow == <<ResultRow(<<"6">>, NoneT, 0, FALSE, FALSE, NoneT, NoneT, NoneT),
               ResultRow(<<"3">>, <<"6">>, 6, TRUE, TRUE, <<"9">>, NoneT, Time)>>
ResultTbodies == {First, Flying, PayoutTbody, NoLane, NoRank, SecondRow}
ResultPages == UNION {[1..n -> ResultTbodies] : n \in 0..MaxTbody}

extract_race_results_frames ==
    {[fn |-> "extract_race_results", pc |-> "called", soup |-> soup, results |-> <<>>] :
        soup \in ResultPages}

extract_race_results_call ==
    /\ frame.fn = "extract_race_results"
    /\ frame.pc = "called"
    /\ frame' = [frame EXCEPT !.pc = "returned",
                    !.results = extract_race_results(frame.soup)]
    /\ UNCHANGED <<db, tx, pc, exc, raised, last, sent, nCalls>>

InitResults == Closed /\ frame \in extract_race_results_frames

NextResults == extract_race_results_call

SpecResults == InitResults /\ [][NextResults]_vars

\* the row group contains the player-id sub-element
HasPlayerId(tbody) == \E i \in 1..Len(tbody) : tbody[i].player /\ tbody[i].is_fs12

\* rank and lane can be recovered from the row the group starts with: a rank
\* text other than "" and "---", and a lane number in the text or in the
\* is-boatColorN class of the lane cell
Recoverable(tbody) ==
    /\ tbody # <<>>
    /\ Trimmed(tbody[1].rank) \notin {NoneT, <<>>, <<"-", "-", "-">>}
    /\ tbody[1].lane # NoneT
    /\ \/ \E i \in 1..Len(tbody[1].lane) : tbody[1].lane[i] \in Digit
       \/ tbody[1].boat_color \in 1..6

FinishGroups(f) ==
    {i \in 1..Len(f.soup) : HasPlayerId(f.soup[i]) /\ Recoverable(f.soup[i])}

\* C20: extract_race_results returns one finish record for each row group
\* that contains the player-id sub-element and whose rank and lane are
\* recoverable, and none for any other row group, wherever it stands
C20_Finish ==
    frame.fn = "extract_race_results" /\ frame.pc = "returned"
        => /\ Len(frame.results) = Cardinality(FinishGroups(frame))
           /\ \A j \in 1..Len(frame.results) :
                 \E i \in FinishGroups(frame) :
                     frame.results[j].rank = Trimmed(frame.soup[i][1].rank)
           /\ \A i \in FinishGroups(frame) :
                 \E j \in 1..Len(frame.results) :
                     frame.results[j].rank = Trimmed(frame.soup[i][1].rank)

\* a payout row group stands between two finish row groups, and the page
\* gave the two finish records
C20_Witness ==
    /\ frame.fn = "extract_race_results" /\ frame.pc = "returned"
    /\ frame.soup = <<Flying, PayoutTbody, First>>
    /\ Len(frame.results) = 2
    /\ frame.results[1].rank = <<"1">> /\ frame.results[1].lane = PyInt(2)
    /\ frame.results[2].rank = <<"F">> /\ frame.results[2].lane = PyInt(3)

\* C21: whatever the order of the finish rows in the page, the records
\* extract_race_results returns are in ascending order of lane
C21_Sorted ==
    frame.fn = "extract_race_results" /\ frame.pc = "returned"
        => \A i, j \in 1..Len(frame.results) :
              i < j => frame.results[i].lane.v <= frame.results[j].lane.v

\* the page lists lane 3 before lane 2 and the records came back as 2, 3
C21_Witness ==
    /\ frame.fn = "extract_race_results" /\ frame.pc = "returned"
    /\ frame.soup = <<Flying, First>>
    /\ [i \in 1..Len(frame.results) |-> frame.results[i].lane.v] = <<2, 3>>

---------------------------------------------------------------------------
(* The merge of the live records into the entry records in main of         *)
(* src/src/scrape_prototype.py.  An entry record has its lane and          *)
(* player_id; a live record has its lane (AbsentI: the key is missing) and *)
(* its tuning_weight (AbsentI: the key is missing).                        *)

MaxRecords == 2
Weights == {50, 52}

\* entry.update(live_entry) for every live_entry of the lane of entry
RECURSIVE entry_update(_, _)
entry_update(entry, live_entries) ==
    IF live_entries = <<>> THEN entry
    ELSE LET live_entry == Head(live_entries)
         IN  entry_update(IF entry.lane = live_entry.lane
                          THEN [entry EXCEPT !.tuning_weight =
                                   IF live_entry.tuning_weight # AbsentI
                                   THEN live_entry.tuning_weight ELSE @]
                          ELSE entry,
                          Tail(live_entries))

\* for entry in entries: for live_entry in live_entries: ...  The read of
\* live_entry["lane"] raises KeyError for a live record without the key.
merge_live(entries, live_entries) ==
    IF entries # <<>> /\ \E i \in 1..Len(live_entries) : live_entries[i].lane = AbsentI
    THEN [exc |-> "KeyError", entries |-> entries]
    ELSE [exc |-> "",
          entries |-> [i \in 1..Len(entries) |-> entry_update(entries[i], live_entries)]]

\* the lists extract_entry_info and extract_live_info can return for pages
\* that show a lane once
DistinctLanes(records) ==
    \A i, j \in 1..Len(records) : i # j => records[i].lane # records[j].lane

EntryLists ==
    {e \in UNION {[1..n -> [lane : Lanes \cup {3}, player_id : {4001},
                            tuning_weight : {AbsentI}]] : n \in 1..MaxRecords} :
        DistinctLanes(e)}

LiveLists ==
    {l \in UNION {[1..n -> [lane : Lanes \cup {3, AbsentI},
                            tuning_weight : Weights \cup {AbsentI}]] : n \in 0..MaxRecords} :
        /\ DistinctLanes(l)
        /\ \A i \in 1..Len(l) : l[i].lane # AbsentI \/ l[i].tuning_weight # AbsentI}

merge_live_frames ==
    {[fn |-> "merge_live", pc |-> "called", entries |-> e, live_entries |-> l,
      exc |-> "", merged |-> <<>>] : e \in EntryLists, l \in LiveLists}

merge_live_call ==
    /\ frame.fn = "merge_live"
    /\ frame.pc = "called"
    /\ LET res == merge_live(frame.entries, frame.live_entries)
       IN  frame' = [frame EXCEPT !.pc = IF res.exc = "" THEN "returned" ELSE "raised",
                                  !.exc = res.exc,
                                  !.merged = IF res.exc = "" THEN res.entries ELSE <<>>]
    /\ UNCHANGED <<db, tx, pc, exc, raised, last, sent, nCalls>>

InitMerge == Closed /\ frame \in merge_live_frames

NextMerge == merge_live_call

SpecMerge == InitMerge /\ [][NextMerge]_vars

LanesOf(records) == {records[i].lane : i \in 1..Len(records)} \ {AbsentI}

\* C22: the merge is an outer join on the lane: every lane of the entry
\* records or of the live records has exactly one merged record, which
\* holds null for the fields of the source that lacks the lane
C22_Original ==
    frame.fn = "merge_live" /\ frame.pc = "returned"
        => /\ \A lane \in LanesOf(frame.entries) \cup LanesOf(frame.live_entries) :
                 Cardinality({i \in 1..Len(frame.merged) : frame.merged[i].lane = lane}) = 1
           /\ \A i \in 1..Len(frame.merged) :
                 frame.merged[i].lane \notin LanesOf(frame.live_entries)
                     => frame.merged[i].tuning_weight = AbsentI

---------------------------------------------------------------------------
(* The season of a race in main of src/src/scrape_prototype.py: the        *)
(* season_year and season_term main derives from the date of TARGET_DATE.  *)

RaceYears == {2024, 2025}
RaceDays == {1, 15, 28}
TargetDates == {date(y, m, d) : y \in RaceYears, m \in 1..12, d \in RaceDays}

\* race_info["season_year"], race_info["season_term"]
main_season(target_date) ==
    IF target_date.m >= 4 /\ target_date.m <= 9
    THEN [season_year |-> target_date.y, season_term |-> 1]
    ELSE [season_year |-> target_date.y, season_term |-> 2]

main_season_frames ==
    {[fn |-> "main_season", pc |-> "called", target_date |-> d,
      race_info |-> [season_year |-> AbsentI, season_term |-> AbsentI]] :
        d \in TargetDates}

main_season_call ==
    /\ frame.fn = "main_season"
    /\ frame.pc = "called"
    /\ frame' = [frame EXCEPT !.pc = "returned",
                              !.race_info = main_season(frame.target_date)]
    /\ UNCHANGED <<db, tx, pc, exc, raised, last, sent, nCalls>>

InitSeason == Closed /\ frame \in main_season_frames

NextSeason == main_season_call

SpecSeason == InitSeason /\ [][NextSeason]_vars

\* the two digits of n
TwoDigits(n) ==
    <<CHOOSE c \in Digit : DigitVal[c] = (n \div 10) % 10,
      CHOOSE c \in Digit : DigitVal[c] = n % 10>>

\* the statistics file of the calendar year and month of a date
FanFileOf(d) == <<"f", "a", "n">> \o TwoDigits(d.y) \o TwoDigits(d.m) \o DotCsv

\* C23: the season_year and season_term main stores for a race date are
\* the year and term parse_filename gives to the statistics file of the
\* same calendar year and month
C23_Original ==
    frame.fn = "main_season" /\ frame.pc = "returned"
        => PyTerm(frame.race_info.season_year, frame.race_info.season_term)
              = parse_filename(FanFileOf(frame.target_date)).ret

\* the step issues a fetch: the index page, a race card or a live page
Fetches ==
    /\ frame.fn = "main" /\ frame.pc \in {"start", "race_card", "race_live_info"}
    /\ frame' # frame

\* C24: whenever main issues a fetch after an earlier one, the delay of
\* REQUEST_INTERVAL has elapsed since the earlier one
C24_Original == [][Fetches => ~frame.fetched]_vars

---------------------------------------------------------------------------
(* main of src/src/fanbook/import_fanbook.py: one run per file.  frame     *)
(* holds the committed tables (db), the tables as the open session holds   *)
(* them (session), the rows of the file and the index of the next one.  A  *)
(* row has its player_id (NoneI: safe_int gives None), its name, the lanes *)
(* for which it has a starts count, the lanes for which it has an L0       *)
(* count, and whether processing it raises.  Player rows carry the name,   *)
(* season rows the term, lane rows the starts and L0 counts; the other     *)
(* columns are copied the same way and are left out.                       *)

MaxRuns == 2
MaxRows == 2
NoTables == [player |-> {}, season |-> {}, lane |-> {}]
FanRow(player_id, name, starts, l0_count, raises) ==
    [player_id |-> player_id, name |-> name, starts |-> starts, l0_count |-> l0_count,
     raises |-> raises]

\* session.merge(Player(**player_data)): the row of the key is updated with
\* the attributes given, or added
merge_player(t, player_id, name) ==
    LET old == {p \in t.player : p.player_id = player_id}
        kept == IF old = {} THEN NoneS ELSE (CHOOSE p \in old : TRUE).name
    IN  [t EXCEPT !.player = (@ \ old)
            \cup {[player_id |-> player_id, name |-> IF name # NoneS THEN name ELSE kept]}]

\* session.merge(PlayerSeasonSummary(**summary_data))
merge_summary(t, player_id, term) ==
    [t EXCEPT !.season = @ \cup {[player_id |-> player_id, term |-> term]}]

\* mutant: the lane row is merged whatever it holds
lane_has_data_any(lane_data) == TRUE

\* len(lane_data) > 4 once the None values are removed
lane_has_data(lane_data) == lane_data.starts # NoneI \/ lane_data.l0_count # NoneI

\* lane_data of one lane of a row; lane 0 keeps the accident counts only
lane_data_of(row, player_id, term, lane) ==
    [player_id |-> player_id, term |-> term, lane |-> lane,
     starts |-> IF lane > 0 /\ lane \in row.starts THEN 10 + lane ELSE NoneI,
     l0_count |-> IF lane \in row.l0_count THEN 1 ELSE NoneI]

\* session.merge(PlayerLaneSummary(**lane_data))
merge_lane(t, lane_data) ==
    LET old == {l \in t.lane : /\ l.player_id = lane_data.player_id
                                /\ l.term = lane_data.term /\ l.lane = lane_data.lane}
        was == IF old = {} THEN [lane_data EXCEPT !.starts = NoneI, !.l0_count = NoneI]
               ELSE CHOOSE l \in old : TRUE
    IN  [t EXCEPT !.lane = (@ \ old)
            \cup {[was EXCEPT
                      !.starts = IF lane_data.starts # NoneI THEN lane_data.starts ELSE @,
                      !.l0_count = IF lane_data.l0_count # NoneI THEN lane_data.l0_count
                                   ELSE @]}]

\* for lane in range(7): ...
RECURSIVE merge_lanes(_, _, _, _, _)
merge_lanes(t, row, player_id, term, lane) ==
    IF lane >= 7 THEN t
    ELSE LET lane_data == lane_data_of(row, player_id, term, lane)
         IN  merge_lanes(IF lane_has_data(lane_data) THEN merge_lane(t, lane_data) ELSE t,
                         row, player_id, term, lane + 1)

\* the body of the loop for a row with a valid player_id
import_row(t, row, term) ==
    merge_lanes(merge_summary(merge_player(t, row.player_id, row.name), row.player_id, term),
                row, row.player_id, term, 0)

\* mutant: what the session holds is written although the run failed
import_rollback_keeps(f) ==
    [f EXCEPT !.pc = "idle", !.out = "rolled back", !.db = f.session]

\* except Exception: session.rollback(); finally: session.close()
import_rollback(f) ==
    [f EXCEPT !.pc = "idle", !.out = "rolled back", !.session = f.db]

Fan2404 == <<"f", "a", "n", "2", "4", "0", "4">> \o DotCsv
Fan2410 == <<"d", "/", "f", "a", "n", "2", "4", "1", "0">> \o DotParquet
Fan2413 == <<"f", "a", "n", "2", "4", "1", "3">> \o DotCsv
FanPaths == {Fan2404, Fan2410, Fan2413}
FanRows ==
    {FanRow(4001, "sato", {1}, {0}, FALSE),
     FanRow(4002, NoneS, {0}, {}, FALSE),
     FanRow(NoneI, "kato", {1}, {}, FALSE),
     FanRow(4001, NoneS, {}, {}, TRUE),
     FanRow(4002, "abe", {6}, {6}, FALSE)}
FanFiles == UNION {[1..n -> FanRows] : n \in 0..MaxRows}

import_frames ==
    {[fn |-> "import_fanbook", pc |-> "idle", runs |-> 0, term |-> PyNone, rows |-> <<>>,
      i |-> 0, db |-> NoTables, session |-> NoTables, start |-> NoTables, out |-> "",
      order |-> <<>>, imported_count |-> 0, skipped_count |-> 0]}

Import(from, f) ==
    /\ frame.fn = "import_fanbook"
    /\ frame.pc = from
    /\ frame' = f
    /\ UNCHANGED <<db, tx, pc, exc, raised, last, sent, nCalls>>

\* main up to session = SessionLocal(): --init-db, parse_filename, the read
\* of the file; a name or a file that cannot be read ends the run
import_main ==
    \E init_db \in BOOLEAN, filepath \in FanPaths, rows \in FanFiles, read \in BOOLEAN :
        /\ frame.fn = "import_fanbook" /\ frame.runs < MaxRuns
        /\ LET db0 == IF init_db THEN NoTables ELSE frame.db
               parsed == parse_filename(filepath)
               run == [frame EXCEPT !.runs = @ + 1, !.db = db0, !.session = db0,
                                    !.start = db0, !.rows = <<>>, !.i = 0, !.order = <<>>,
                                    !.imported_count = 0, !.skipped_count = 0,
                                    !.term = PyNone]
           IN  Import("idle",
                      IF parsed.exc # "" \/ ~read THEN [run EXCEPT !.out = "no session"]
                      ELSE [run EXCEPT !.pc = "loop", !.out = "", !.term = parsed.ret,
                                       !.rows = rows, !.i = 1])

\* for index, row in df.iterrows(): one row
import_for ==
    /\ frame.fn = "import_fanbook" /\ frame.i <= Len(frame.rows)
    /\ LET row == frame.rows[frame.i]
           next == [frame EXCEPT !.i = @ + 1, !.order = Append(@, frame.i)]
       IN  Import("loop",
                  IF row.player_id = NoneI THEN [next EXCEPT !.skipped_count = @ + 1]
                  ELSE IF row.raises THEN import_rollback(next)
                  ELSE [next EXCEPT !.imported_count = @ + 1,
                                    !.session = import_row(@, row, frame.term)])

\* session.commit() after the last row; a flush or commit that fails is
\* rolled back
import_commit ==
    \E committed \in BOOLEAN :
        /\ frame.fn = "import_fanbook" /\ frame.i > Len(frame.rows)
        /\ Import("loop",
                  IF committed
                  THEN [frame EXCEPT !.pc = "idle", !.out = "committed", !.db = frame.session]
                  ELSE import_rollback(frame))

InitImport == Closed /\ frame \in import_frames

NextImport == import_main \/ import_for \/ import_commit

SpecImport == InitImport /\ [][NextImport]_vars

\* the tables after the rows with a valid registration number, in file order
RECURSIVE Imported(_, _, _)
Imported(t, rows, term) ==
    IF rows = <<>> THEN t
    ELSE Imported(IF Head(rows).player_id = NoneI THEN t ELSE import_row(t, Head(rows), term),
                  Tail(rows), term)

\* C25: a run handles the rows in file order and commits once, after the
\* last row: while it runs and after a row or the commit raised the
\* committed tables are those of its start, after the commit they are those
\* of its start with every row of a valid registration number applied, the
\* rows without one skipped
C25_AllOrNothing ==
    frame.fn = "import_fanbook"
        => /\ frame.order = [k \in 1..Len(frame.order) |-> k]
           /\ frame.pc = "loop" \/ frame.out \in {"rolled back", "no session"}
                 => frame.db = frame.start
           /\ frame.out = "committed"
                 => /\ frame.db = Imported(frame.start, frame.rows, frame.term)
                    /\ Len(frame.order) = Len(frame.rows)
                    /\ frame.imported_count + frame.skipped_count = Len(frame.rows)

\* the second row of the second run raised after the first was merged: the
\* committed tables are those the first run left
C25_Witness ==
    /\ frame.fn = "import_fanbook" /\ frame.out = "rolled back"
    /\ frame.imported_count = 1 /\ frame.order = <<1, 2>>
    /\ frame.rows[2].raises
    /\ frame.runs = 2 /\ frame.db # NoTables /\ frame.db = frame.start

\* C28: in the committed tables every lane row has the season row of its
\* player and term and the row of its player, holds a value besides its
\* key, and has a lane in 0..6
C28_LaneRows ==
    frame.fn = "import_fanbook"
        => \A l \in frame.db.lane :
              /\ \E x \in frame.db.season : x.player_id = l.player_id /\ x.term = l.term
              /\ \E p \in frame.db.player : p.player_id = l.player_id
              /\ l.starts # NoneI \/ l.l0_count # NoneI
              /\ l.lane \in 0..6

\* a committed import wrote a lane 0 row that holds an L0 count only and a
\* lane 6 row, and no row for the lanes without a value
C28_Witness ==
    /\ frame.fn = "import_fanbook" /\ frame.out = "committed"
    /\ \E l \in frame.db.lane : l.lane = 0 /\ l.starts = NoneI /\ l.l0_count = 1
    /\ \E l \in frame.db.lane : l.lane = 6 /\ l.player_id = 4002
    /\ \A l \in frame.db.lane : l.lane \in {0, 1, 6}
    /\ \A l \in frame.db.lane : l.player_id = 4002 => l.lane = 6

\* the texts json.dumps gives for a list of part names
PartNames == {"ring", "gear"}
SerializedLists ==
    {json_dumps(l) : l \in UNION {[1..n -> PartNames] : n \in 0..2}}

\* C26: a stored parts_changed that is not null is the serialized list of
\* the part names, whether one part or several were supplied and whether as
\* a string or as a list
C26_Original ==
    \A e \in Rows(db.entry) \cup Rows(tx.entry) :
        e.parts_changed # NoneS => e.parts_changed \in SerializedLists

---------------------------------------------------------------------------
(* extract_live_entries_info of src/src/scraping/live_info_scraper.py.  A  *)
(* tbody has the text of its lane cell and of its tuning weight cell       *)
(* (NoneT: no cell) and the texts of its parts spans.  The exhibition      *)
(* time, tilt, propeller and live weight are read like the tuning weight   *)
(* and are left out.                                                       *)

LiveTbody(lane, tuning_weight, parts) ==
    [lane |-> lane, tuning_weight |-> tuning_weight, parts |-> parts]

\* the part names of the spans that have a text
RECURSIVE part_names(_)
part_names(parts_elems) ==
    IF parts_elems = <<>> THEN <<>>
    ELSE LET part_name == extract_text(Head(parts_elems), NoneT)
         IN  (IF part_name # NoneT THEN <<part_name>> ELSE <<>>)
             \o part_names(Tail(parts_elems))

\* the loop over tbody_elements: a tbody without a lane number is skipped
RECURSIVE extract_live_entries_info(_)
extract_live_entries_info(tbody_elements) ==
    IF tbody_elements = <<>> THEN <<>>
    ELSE LET tbody == Head(tbody_elements)
             lane_num == extract_number(extract_text(tbody.lane, NoneT), Number, 1, "int",
                                        PyNone).ret
             parts_changed == part_names(tbody.parts)
             entry == [lane |-> lane_num,
                       tuning_weight |->
                           extract_number(extract_text(tbody.tuning_weight, NoneT),
                                          NumberDots, 1, "float", PyNone).ret,
                       parts_changed |-> IF parts_changed # <<>>
                                         THEN [kind |-> "list", l |-> parts_changed]
                                         ELSE [kind |-> "none", l |-> <<>>]]
         IN  (IF lane_num = PyNone THEN <<>> ELSE <<entry>>)
             \o extract_live_entries_info(Tail(tbody_elements))

LiveTbodies ==
    {LiveTbody(<<"1">>, <<"0", ".", "5">>, <<<<"r">>, <<" ">>>>),
     LiveTbody(<<"2">>, NoneT, <<>>),
     LiveTbody(NoneT, <<"0", ".", "5">>, <<>>),
     LiveTbody(<<" ", "3">>, <<".">>, <<<<"r">>, <<"g">>>>)}
LiveTables == UNION {[1..n -> LiveTbodies] : n \in 0..MaxElems}

extract_live_entries_info_frames ==
    {[fn |-> "extract_live_entries_info", pc |-> "called", soup |-> soup, entries |-> <<>>] :
        soup \in LiveTables}

extract_live_entries_info_call ==
    /\ frame.fn = "extract_live_entries_info"
    /\ frame.pc = "called"
    /\ frame' = [frame EXCEPT !.pc = "returned",
                    !.entries = extract_live_entries_info(frame.soup)]
    /\ UNCHANGED <<db, tx, pc, exc, raised, last, sent, nCalls>>

\* scrape_live_info: the three extractors on the pre-start page
InitLive ==
    /\ Closed
    /\ frame \in extract_weather_info_frames \cup extract_live_entries_info_frames
                      \cup extract_start_exhibition_info_frames

NextLive ==
    \/ extract_weather_info_call
    \/ extract_live_entries_info_call
    \/ extract_start_exhibition_info_call

SpecLive == InitLive /\ [][NextLive]_vars

\* C27: each of the three extractors of the pre-start page returns without
\* raising, with an empty result when its container is missing and a null
\* field where an element of a present container is missing
C27_Original ==
    /\ frame.fn = "extract_weather_info" /\ frame.pc = "returned"
          => /\ frame.out.exc = ""
             /\ ~frame.soup.weather_section => frame.out.ret = NoWeatherInfo
             /\ frame.soup.weather_section /\ frame.soup.temp = NoneT
                   => frame.out.ret.temperature = PyNone
    /\ frame.fn = "extract_live_entries_info" /\ frame.pc = "returned"
          => /\ frame.soup = <<>> => frame.entries = <<>>
             /\ \A i \in 1..Len(frame.entries) :
                   /\ frame.entries[i].lane # PyNone
                   /\ (\A k \in 1..Len(frame.soup) :
                          frame.soup[k].tuning_weight \in {NoneT, <<".">>})
                         => frame.entries[i].tuning_weight = PyNone
    /\ frame.fn = "extract_start_exhibition_info" /\ frame.pc = "returned"
          => /\ frame.soup = <<>> => frame.start_exhibition = <<>>
             /\ \A i \in 1..Len(frame.start_exhibition) :
                   (\A k \in 1..Len(frame.soup) : frame.soup[k].st = NoneT)
                       => frame.start_exhibition[i].st = PyNone

---------------------------------------------------------------------------
(* Claims about the early returns of the persistence calls *)

\* C29: create_payouts called with an empty payout list returns an empty
\* list and changes nothing: the rows the session holds and the committed
\* rows, of that race and of every other race, are those of before the call.
C29_Empty ==
    [][ last'.op = "create_payouts" /\ last'.pl = <<>> /\ nCalls' = nCalls + 1
          => /\ last'.exc = ""
             /\ create_payouts_returns(last'.rid, last'.pl) = EmptyBag
             /\ last'.log = <<"warning">>
             /\ tx' = tx
             /\ db' = db
      ]_vars

\* C29 witness: the empty list was passed for a race that has payouts,
\* while another race has payouts too, and all of them are still held
C29_Witness ==
    /\ last.op = "create_payouts" /\ last.pl = <<>> /\ last.exc = "" /\ last.existed
    /\ \E x \in Rows(tx.payout) : x.race_id = last.rid
    /\ \E x \in Rows(tx.payout) : x.race_id # last.rid

MissingS(s) == s \in {AbsentS, NoneS}
MissingI(i) == i \in {AbsentI, NoneI}

\* the call was made without one of its required identity fields
LacksIdentity(call) ==
    CASE call.op = "get_or_create_player" -> MissingI(call.pd.player_id)
      [] call.op = "get_or_create_race" ->
            \/ MissingS(call.rd.hd) \/ MissingS(call.rd.jcd) \/ MissingI(call.rd.rno)
            \/ MissingI(call.rd.season_year) \/ MissingI(call.rd.season_term)
      [] call.op = "upsert_race_entry" ->
            \/ MissingI(call.ed.race_id) \/ MissingI(call.ed.lane)
            \/ MissingI(call.ed.player_id)
      [] OTHER -> FALSE

\* C30: get_or_create_player, get_or_create_race and upsert_race_entry
\* called without a required identity field raise ValueError, and the rows
\* the session holds and the committed rows are those of before the call.
C30_Identity ==
    [][ nCalls' = nCalls + 1 /\ LacksIdentity(last')
          => /\ last'.exc = "ValueError"
             /\ tx' = tx
             /\ db' = db
      ]_vars

\* C30 witness: a race without its season year was refused while the
\* session held a race and a pending entry, both still held
C30_Witness ==
    /\ last.op = "get_or_create_race" /\ MissingI(last.rd.season_year)
    /\ last.exc = "ValueError" /\ pc = "raising"
    /\ tx.race # EmptyBag /\ tx.entry # EmptyBag
    /\ tx.race # db.race

====
